---- MODULE Spec2Model ----
(***************************************************************************)
(* A model of the evidence-correlation core of the video analyzer:         *)
(*   - the blackout scan and the frame sampler                             *)
(*       (backend/app/services/enhanced_video_analysis.py),                *)
(*   - the violation correlator                                            *)
(*       (backend/app/services/violation_analysis_service.py and           *)
(*        enhanced_video_analysis.py),                                     *)
(*   - the transcription engine and its hallucination filter               *)
(*       (backend/app/services/audio_analysis_service.py),                 *)
(*   - the frame analyzer with its providers, and the analysis run from    *)
(*     the opening of the video to the results dictionary                  *)
(*       (enhanced_video_analysis.py),                                     *)
(*   - the voice-activity segmenter of the audio track and its fixed-chunk *)
(*     fallback (audio_analysis_service.py),                               *)
(*   - the frame-analysis cache of VideoAnalysisService                    *)
(*       (backend/app/services/video_analysis.py),                         *)
(*   - the Redis service with its fallback connection                      *)
(*       (backend/app/services/redis_service.py).                          *)
(*                                                                         *)
(* Each part has its own specification (SpecSampler, SpecCorrelator,       *)
(* SpecAudio, SpecFilter for the hallucination filter called on its own,   *)
(* SpecRun for the whole run, SpecSummary for the summary of a run whose   *)
(* frames are analysed, SpecSegmenter, SpecCache and SpecRedis) over the   *)
(* shared variables; the variables of the other parts stay at their idle   *)
(* values.                                                                 *)
(***************************************************************************)
EXTENDS Integers, Sequences, FiniteSets, TLC

VARIABLES
    \* ---- blackout scan and frame sampler
    pc,                 \* position in the analysis run
    video_fps,          \* cap.get(CAP_PROP_FPS), a rational [num, den]
    total_frames,       \* cap.get(CAP_PROP_FRAME_COUNT)
    readable,           \* frames below this index decode (cap.read() returns ret)
    frame_count,        \* loop variable of _detect_blackout_segments
    in_blackout,        \* loop variable of _detect_blackout_segments
    blackout_start,     \* loop variable of _detect_blackout_segments (-1: None)
    blackout_segments,  \* list built by _detect_blackout_segments
    video_info,         \* result of _analyze_video_structure
    useful_segments,    \* result of _create_useful_segments
    strategy,           \* the strategy argument of the run
    max_frames,         \* the max_frames argument of the run (requested budget)
    adjusted_max_frames,\* result of _calculate_optimal_frame_count
    frames_data,        \* result of _extract_intelligent_frames
    footage,            \* what the frames the sampler read show
    \* ---- violation correlator
    cpc,                \* position in the correlation run
    frame_analyses,     \* the frame findings handed to the correlator
    combined,           \* _combine_and_deduplicate: the sorted list it scans
    deduplicated,       \* _combine_and_deduplicate: its result
    second_pass,        \* _combine_and_deduplicate applied to its own result
    violation_timeline, \* ViolationAnalysisService.analyze: the timeline
    violations,         \* result of _detect_violations_with_audio_context
    \* ---- transcription engine
    apc,                \* position in the transcription run
    model_size,         \* AudioAnalysisService.model_size
    whisper_model,      \* AudioAnalysisService.whisper_model ("None": not loaded)
    confidence_threshold, \* AudioAnalysisService.confidence_threshold, in hundredths
    audio_segments,     \* the AudioSegments handed to transcribe_audio_segments
    stt_results,        \* what model.transcribe did for each segment so far
    transcription_segments, \* the TranscriptionSegments built so far
    earlier_call,       \* a call of detect_hallucinations made before later_call
    later_call,         \* the latest call of detect_hallucinations
    \* ---- analysis run (analyze_video_comprehensive_with_audio)
    include_audio,      \* include_audio and self.audio_service
    audio_result,       \* audio_result ("None" or the AudioAnalysisResult)
    frame_i,            \* frames of frames_data the loop of step 6 has finished
    provider_calls,     \* the calls analyze_frame made for the latest frame
    current_provider,   \* self.current_provider
    analyses,           \* frame_analyses of the run
    results,            \* the results dictionary the run returned
    raised,             \* the exception the run propagated ("None": none)
    \* segment_audio_by_activity and step 4 of analyze_video_audio
    vpc,                \* position in analyze_video_audio
    speech_first,       \* speech_frames[0]
    speech_runs,        \* lengths of the runs of equal values of speech_frames
    vad_i,              \* frames the loop of segment_audio_by_activity has visited
    in_speech,          \* in_speech
    speech_start,       \* start_time of the run that is open
    vad_segments,       \* segments
    \* VideoAnalysisService and its frame-analysis cache
    use_cache,          \* self.use_cache
    analysis_cache,     \* self.analysis_cache
    cache_provider,     \* what the inference API answers for each image
    cache_frames,       \* frames_data of analyze_video_optimized, by their images
    cache_results,      \* what analyze_frame_with_cache returned, call by call
    cache_raised,       \* the exception a call raised ("None": none)
    \* RedisService
    primary_redis,      \* self.primary_redis is set
    fallback_redis,     \* self.fallback_redis is set
    using_fallback,     \* self.using_fallback
    command_count,      \* self.command_count
    redis_down,         \* the servers whose commands raise at present
    redis_stores,       \* the keys each server holds
    redis_attempts,     \* the calls of func made by the latest command, in order
    redis_result        \* what the latest command returned

samplerVars == << pc, video_fps, total_frames, readable, frame_count, in_blackout,
                  blackout_start, blackout_segments, video_info, useful_segments,
                  strategy, max_frames, adjusted_max_frames, frames_data, footage >>

correlatorVars == << cpc, frame_analyses, combined, deduplicated, second_pass,
                     violation_timeline, violations >>

audioVars == << apc, model_size, whisper_model, confidence_threshold, audio_segments,
                stt_results, transcription_segments, earlier_call, later_call >>

runVars == << include_audio, audio_result, frame_i, provider_calls, current_provider,
              analyses, results, raised >>

segmenterVars == << vpc, speech_first, speech_runs, vad_i, in_speech, speech_start,
                    vad_segments >>

cacheVars == << use_cache, analysis_cache, cache_provider, cache_frames, cache_results,
                cache_raised >>

redisVars == << primary_redis, fallback_redis, using_fallback, command_count,
                redis_down, redis_stores, redis_attempts, redis_result >>

serviceVars == << segmenterVars, cacheVars, redisVars >>

vars == << samplerVars, correlatorVars, audioVars, runVars, serviceVars >>

(***************************************************************************)
(* The parts that a specification does not run stay as constructed.        *)
(***************************************************************************)
NoCall == [made |-> FALSE]
NoResults == [returned |-> FALSE]

\* a run that has analysed no frame yet; analyze_video_comprehensive calls the
\* run with include_audio = False
IdleRun ==
    /\ include_audio = FALSE
    /\ audio_result = "None"
    /\ frame_i = 0
    /\ provider_calls = << >>
    /\ current_provider = "None"
    /\ analyses = << >>
    /\ results = NoResults
    /\ raised = "None"

\* the audio segmenter before its call
IdleSegmenter ==
    /\ vpc = "idle"
    /\ speech_first = FALSE
    /\ speech_runs = << >>
    /\ vad_i = 0
    /\ in_speech = FALSE
    /\ speech_start = 0
    /\ vad_segments = << >>

\* an attribute that was never assigned; once assigned, a dictionary is held
\* as the set of its items
NoAttribute == [set |-> FALSE, items |-> {}]

\* no VideoAnalysisService has been constructed
IdleCache ==
    /\ use_cache = FALSE
    /\ analysis_cache = NoAttribute
    /\ cache_provider = << >>
    /\ cache_frames = << >>
    /\ cache_results = << >>
    /\ cache_raised = "None"

\* no RedisService has been constructed
IdleRedis ==
    /\ primary_redis = FALSE
    /\ fallback_redis = FALSE
    /\ using_fallback = FALSE
    /\ command_count = 0
    /\ redis_down = {}
    /\ redis_stores = << >>
    /\ redis_attempts = << >>
    /\ redis_result = "None"

IdleServices == IdleSegmenter /\ IdleCache /\ IdleRedis

\* no frame of the video has been read by the sampler
NoFootage == [motion |-> "unread", dark |-> "unread"]

InitSamplerIdle ==
    /\ IdleRun
    /\ pc = "idle"
    /\ video_fps = [num |-> 1, den |-> 1]
    /\ total_frames = 0
    /\ readable = 0
    /\ frame_count = 0
    /\ in_blackout = FALSE
    /\ blackout_start = -1
    /\ blackout_segments = << >>
    /\ video_info = [duration |-> 0]
    /\ useful_segments = << >>
    /\ strategy = "none"
    /\ max_frames = 0
    /\ adjusted_max_frames = 0
    /\ frames_data = << >>
    /\ footage = NoFootage

IdleCorrelator ==
    /\ cpc = "idle"
    /\ frame_analyses = << >>
    /\ combined = << >>
    /\ deduplicated = << >>
    /\ second_pass = << >>
    /\ violation_timeline = << >>
    /\ violations = << >>

\* AudioAnalysisService.__init__
IdleService ==
    /\ model_size = "base"
    /\ whisper_model = "None"
    /\ confidence_threshold = 40
    /\ earlier_call = NoCall
    /\ later_call = NoCall

IdleAudio ==
    /\ IdleService
    /\ apc = "idle"
    /\ audio_segments = << >>
    /\ stt_results = << >>
    /\ transcription_segments = << >>

(***************************************************************************)
(* Bounds of the model.                                                    *)
(***************************************************************************)
MaxFrames == 33      \* longest video, in frames
MaxBudget == 3       \* largest requested frame budget

(***************************************************************************)
(* Generic helpers.                                                        *)
(***************************************************************************)
Max2(a, b) == IF a >= b THEN a ELSE b
Min2(a, b) == IF a <= b THEN a ELSE b
Abs(a) == IF a >= 0 THEN a ELSE 0 - a
Front(s) == SubSeq(s, 1, Len(s) - 1)
Last(s) == s[Len(s)]
Take(s, n) == SubSeq(s, 1, Min2(n, Len(s)))     \* s[:n] for n >= 0
SeqRange(s) == { s[i] : i \in DOMAIN s }

(***************************************************************************)
(* Time.  Every time of the video pipeline is a float built from a frame   *)
(* index and the frame rate.  The model holds a time as the exact rational *)
(* p/q counted in frame periods (p/q frame periods = p/(q*fps) seconds),   *)
(* and segment boundaries, which are always frame_count / video_fps, as    *)
(* the frame index itself.                                                 *)
(***************************************************************************)
Fps(n, d) == [num |-> n, den |-> d]
FpsSet == { Fps(1, 1), Fps(1000, 1001) }

\* comparisons of a duration of d frame periods against s seconds
LessThanSeconds(fps, d, s) == d * fps.den < s * fps.num
MoreThanSeconds(fps, d, s) == d * fps.den > s * fps.num

\* rational timestamps
Ts(p, q) == [p |-> p, q |-> q]
TsLeq(a, b) == a.p * b.q <= b.p * a.q
TsLess(a, b) == a.p * b.q < b.p * a.q

\* The frame indices n for which the IEEE-754 double evaluation of
\* int((n / video_fps) * video_fps) yields n - 1 instead of n: the quotient
\* n / video_fps is rounded, and its product with video_fps falls just below n.
\* For video_fps = 1000/1001 these are the powers of two; for video_fps = 1.0
\* the round trip is exact.
LossyFrames(fps) ==
    IF fps = Fps(1000, 1001) THEN {1, 2, 4, 8, 16, 32, 64} ELSE {}

\* int(t * video_fps) for a time t that was computed as n / video_fps
TimeToFrame(fps, n) == IF n \in LossyFrames(fps) THEN n - 1 ELSE n

\* max(1, int(video_fps * 5))
SampleInterval(fps) == Max2(1, (fps.num * 5) \div fps.den)

(***************************************************************************)
(* Video structure analyzer.                                               *)
(***************************************************************************)
Segment(s, e) == [start_time |-> s, end_time |-> e, duration |-> e - s]

RECURSIVE SumDuration(_)
SumDuration(segs) ==
    IF segs = << >> THEN 0 ELSE segs[1].duration + SumDuration(Tail(segs))

\* the code after the scan loop: a video that ends in blackout closes the
\* last blackout segment at total_frames / video_fps
CloseBlackout(segs, inb, bstart, total) ==
    IF inb /\ bstart # -1 THEN Append(segs, Segment(bstart, total)) ELSE segs

\* the dictionary returned by _analyze_video_structure
AnalyzeVideoStructure(fps, total, segs) ==
    [ duration          |-> total,
      fps               |-> fps,
      total_frames      |-> total,
      blackout_segments |-> segs,
      blackout_duration |-> SumDuration(segs),
      useful_duration   |-> total - SumDuration(segs) ]

NoVideoInfo == AnalyzeVideoStructure(Fps(1, 1), 0, << >>)

\* one iteration of the scan loop whose read succeeded
ScanFrame ==
    /\ pc = "scan"
    /\ frame_count < total_frames
    /\ \E is_blackout \in BOOLEAN :
         \/ /\ is_blackout /\ ~in_blackout
            /\ in_blackout' = TRUE
            /\ blackout_start' = frame_count
            /\ UNCHANGED blackout_segments
         \/ /\ ~is_blackout /\ in_blackout
            /\ in_blackout' = FALSE
            /\ blackout_segments' =
                 IF blackout_start # -1
                 THEN Append(blackout_segments, Segment(blackout_start, frame_count))
                 ELSE blackout_segments
            /\ UNCHANGED blackout_start
         \/ /\ is_blackout = in_blackout
            /\ UNCHANGED << in_blackout, blackout_start, blackout_segments >>
    /\ frame_count' = frame_count + SampleInterval(video_fps)
    /\ UNCHANGED << pc, video_fps, total_frames, readable, video_info,
                    useful_segments, strategy, max_frames, adjusted_max_frames, frames_data, footage >>
    /\ UNCHANGED << correlatorVars, audioVars, runVars >>
    /\ UNCHANGED serviceVars

\* the scan loop ends, the open blackout is closed, and
\* _analyze_video_structure returns
ScanReturn(limit) ==
    /\ blackout_segments' =
         CloseBlackout(blackout_segments, in_blackout, blackout_start, total_frames)
    /\ video_info' = AnalyzeVideoStructure(video_fps, total_frames, blackout_segments')
    /\ readable' = limit
    /\ pc' = "structure"
    /\ UNCHANGED << video_fps, total_frames, frame_count, in_blackout,
                    blackout_start, useful_segments, strategy, max_frames,
                    adjusted_max_frames, frames_data, footage >>
    /\ UNCHANGED << correlatorVars, audioVars, runVars >>
    /\ UNCHANGED serviceVars

\* the loop condition fails
ScanEnd ==
    /\ pc = "scan"
    /\ frame_count >= total_frames
    /\ ScanReturn(readable)

\* cap.read() returns ret = False: break
ScanBreak ==
    /\ pc = "scan"
    /\ frame_count < total_frames
    /\ ScanReturn(frame_count)

(***************************************************************************)
(* Frame sampler.                                                          *)
(***************************************************************************)
\* _create_useful_segments whose walk resumes at the start of the blackout it
\* has just passed instead of at its end
CreateUsefulSegmentsFromStart(blackouts, current_time, duration) ==
    LET RECURSIVE Walk(_, _)
        Walk(bs, cur) ==
            IF bs = << >>
            THEN IF cur < duration THEN << Segment(cur, duration) >> ELSE << >>
            ELSE LET b == bs[1]
                     before == IF cur < b.start_time
                               THEN << Segment(cur, b.start_time) >>
                               ELSE << >>
                 IN  before \o Walk(Tail(bs), b.start_time)
    IN  Walk(blackouts, current_time)

\* the walk of _create_useful_segments over the sorted blackouts
CreateUsefulSegmentsFrom(blackouts, current_time, duration) ==
    LET RECURSIVE Walk(_, _)
        Walk(bs, cur) ==
            IF bs = << >>
            THEN IF cur < duration THEN << Segment(cur, duration) >> ELSE << >>
            ELSE LET b == bs[1]
                     before == IF cur < b.start_time
                               THEN << Segment(cur, b.start_time) >>
                               ELSE << >>
                 IN  before \o Walk(Tail(bs), b.end_time)
    IN  Walk(blackouts, current_time)

RECURSIVE SortByStart(_)
SortByStart(segs) ==
    IF segs = << >> THEN << >>
    ELSE LET rest == SortByStart(Front(segs))
             x == Last(segs)
             k == Cardinality({ i \in DOMAIN rest : rest[i].start_time <= x.start_time })
         IN  SubSeq(rest, 1, k) \o << x >> \o SubSeq(rest, k + 1, Len(rest))

\* _create_useful_segments
CreateUsefulSegments(info) ==
    IF info.blackout_segments = << >>
    THEN << Segment(0, info.duration) >>
    ELSE CreateUsefulSegmentsFrom(SortByStart(info.blackout_segments), 0, info.duration)

\* _calculate_optimal_frame_count: min(int(max(10, int(useful/30)) * multiplier),
\* requested), the multiplier in tenths
CalculateOptimalFrameCount(info, requested_frames) ==
    LET fps == info.fps
        useful == info.useful_duration
        base_frames == Max2(10, (useful * fps.den) \div (30 * fps.num))
        multiplier10 == IF MoreThanSeconds(fps, useful, 3600) THEN 15
                        ELSE IF MoreThanSeconds(fps, useful, 1800) THEN 13
                        ELSE IF MoreThanSeconds(fps, useful, 600) THEN 11
                        ELSE 10
        optimal_frames == (base_frames * multiplier10) \div 10
    IN  Min2(optimal_frames, requested_frames)

\* what the frames of the video show; the scan fixed the coarse samples, the
\* frames between them are drawn here
MotionProfiles == { "still", "rising", "falling" }
ContentProfiles == { "block", "lead" }
Content(m, c) == [motion |-> m, dark |-> c]

\* cv2.sumElems(cv2.absdiff(prev_frame, gray)) of frame f
MotionOf(content, f) ==
    IF content.motion = "still" THEN 0
    ELSE IF content.motion = "rising" THEN f + 1
    ELSE 1000 - f

\* cap.set(POS_FRAMES, f); cap.read() gives ret
ReadOk(f, limit) == f >= 0 /\ f < limit

\* _is_frame_blackout on frame f.  A coarse sample is black exactly when the
\* scan put it inside a blackout segment; with "lead" the redaction began one
\* frame before the sample that detected it.
IsFrameBlackout(content, blackouts, f) ==
    \/ \E i \in DOMAIN blackouts :
          blackouts[i].start_time <= f /\ f < blackouts[i].end_time
    \/ /\ content.dark = "lead"
       /\ \E i \in DOMAIN blackouts : blackouts[i].start_time = f + 1

\* _process_frame: the sampled frame, without its motion score
ProcessFrame(frame_number, timestamp) ==
    [frame_number |-> frame_number, timestamp |-> timestamp]

\* the list left in the order it was built, the sort by timestamp left out
SortByTimestampSkipped(s) == s

\* list.sort(key=timestamp): stable, ascending
RECURSIVE SortByTimestamp(_)
SortByTimestamp(s) ==
    IF s = << >> THEN << >>
    ELSE LET rest == SortByTimestamp(Front(s))
             x == Last(s)
             k == Cardinality({ i \in DOMAIN rest : TsLeq(rest[i].timestamp, x.timestamp) })
         IN  SubSeq(rest, 1, k) \o << x >> \o SubSeq(rest, k + 1, Len(rest))

\* list.sort(key=motion_score, reverse=True): stable, descending
RECURSIVE SortByMotionDesc(_)
SortByMotionDesc(s) ==
    IF s = << >> THEN << >>
    ELSE LET rest == SortByMotionDesc(Front(s))
             x == Last(s)
             k == Cardinality({ i \in DOMAIN rest : rest[i].motion_score >= x.motion_score })
         IN  SubSeq(rest, 1, k) \o << x >> \o SubSeq(rest, k + 1, Len(rest))

\* the first pass of _extract_frames_from_segment: range(start_frame,
\* end_frame, frame_interval), the frames that decode, each scored against
\* the previous candidate (the first one scores 0)
MotionCandidates(content, limit, start_frame, end_frame, frame_interval) ==
    LET count == IF end_frame > start_frame
                 THEN (end_frame - start_frame + frame_interval - 1) \div frame_interval
                 ELSE 0
        RECURSIVE Collect(_, _)
        Collect(j, acc) ==
            IF j >= count THEN acc
            ELSE LET f == start_frame + j * frame_interval
                 IN  IF ~ReadOk(f, limit) THEN Collect(j + 1, acc)
                     ELSE Collect(j + 1, Append(acc,
                            [frame_number |-> f,
                             timestamp    |-> Ts(f, 1),
                             motion_score |-> IF acc = << >> THEN 0
                                              ELSE MotionOf(content, f)]))
    IN  Collect(0, << >>)

\* _extract_frames_from_segment
ExtractFramesFromSegment(content, limit, fps, segment, num_frames) ==
    LET start_frame == TimeToFrame(fps, segment.start_time)
        end_frame == TimeToFrame(fps, segment.end_time)
        segment_frames == end_frame - start_frame
        frame_interval == IF segment_frames < num_frames THEN 1
                          ELSE Max2(1, segment_frames \div (num_frames * 3))
        motion_candidates ==
            MotionCandidates(content, limit, start_frame, end_frame, frame_interval)
        selected == SortByTimestamp(Take(SortByMotionDesc(motion_candidates), num_frames))
    IN  [ i \in DOMAIN selected |->
            ProcessFrame(selected[i].frame_number, selected[i].timestamp) ]

\* min_frames_per_segment of _extract_intelligent_adaptive
MinFramesPerSegment == 1

\* the start and end frames of the segments, in order
Boundaries(segs) ==
    [ k \in 1..(2 * Len(segs)) |->
        IF k % 2 = 1 THEN segs[(k + 1) \div 2].start_time
        ELSE segs[k \div 2].end_time ]

\* The triples << max_frames, i, boundaries of the usable segments >> for
\* which the IEEE-754 double evaluation of
\*     int(max_frames * (segment['duration'] / total_useful_duration))
\* for the i-th segment is one less than the exact floor: the durations are
\* differences of frame_count / video_fps, total_useful_duration is their
\* sum(), and the rounded quotient times max_frames falls just below a whole
\* number.  For video_fps = 1.0 the evaluation is exact for every video of up
\* to MaxFrames + 1 frames and budget of up to MaxBudget + 1; for
\* video_fps = 1000/1001 the cases over that range are listed.
LossyShares(fps) ==
    IF fps = Fps(1000, 1001)
    THEN {
      << 2, 1, << 0, 4, 8, 12 >> >>, << 2, 1, << 0, 4, 16, 20 >> >>,
      << 2, 1, << 0, 4, 20, 24 >> >>, << 2, 1, << 0, 8, 16, 24 >> >>,
      << 2, 1, << 4, 8, 16, 20 >> >>, << 2, 1, << 4, 8, 20, 24 >> >>,
      << 2, 1, << 4, 12, 16, 24 >> >>, << 2, 1, << 12, 16, 20, 24 >> >>,
      << 2, 2, << 0, 4, 12, 16 >> >>, << 2, 2, << 0, 4, 24, 28 >> >>,
      << 2, 2, << 0, 4, 28, 32 >> >>, << 2, 2, << 0, 8, 24, 32 >> >>,
      << 2, 2, << 0, 12, 20, 32 >> >>, << 2, 2, << 4, 8, 12, 16 >> >>,
      << 2, 2, << 4, 8, 24, 28 >> >>, << 2, 2, << 4, 8, 28, 32 >> >>,
      << 2, 2, << 4, 12, 24, 32 >> >>, << 2, 2, << 8, 12, 24, 28 >> >>,
      << 2, 2, << 8, 12, 28, 32 >> >>, << 2, 2, << 8, 16, 24, 32 >> >>,
      << 2, 2, << 12, 20, 24, 32 >> >>, << 2, 2, << 16, 20, 24, 28 >> >>,
      << 2, 2, << 16, 20, 28, 32 >> >>, << 2, 2, << 20, 24, 28, 32 >> >>,
      << 2, 3, << 0, 4, 8, 12, 24, 32 >> >>,
      << 2, 3, << 0, 4, 16, 20, 24, 32 >> >>,
      << 2, 3, << 4, 8, 16, 20, 24, 32 >> >>,
      << 2, 3, << 8, 12, 16, 20, 24, 32 >> >>, << 3, 1, << 0, 4, 8, 10 >> >>,
      << 3, 1, << 0, 4, 8, 12, 16, 20 >> >>,
      << 3, 1, << 0, 4, 8, 12, 20, 24 >> >>, << 3, 1, << 0, 4, 16, 18 >> >>,
      << 3, 1, << 0, 4, 16, 24 >> >>, << 3, 1, << 0, 4, 32, 34 >> >>,
      << 3, 1, << 0, 8, 16, 20 >> >>, << 3, 1, << 0, 8, 20, 24 >> >>,
      << 3, 1, << 0, 12, 16, 20, 32, 34 >> >>,
      << 3, 1, << 0, 12, 20, 24, 32, 34 >> >>,
      << 3, 1, << 4, 8, 16, 18 >> >>, << 3, 1, << 4, 8, 16, 24 >> >>,
      << 3, 1, << 4, 8, 32, 34 >> >>,
      << 3, 1, << 4, 16, 20, 24, 32, 34 >> >>,
      << 3, 1, << 4, 16, 20, 26 >> >>,
      << 3, 1, << 4, 16, 24, 28, 32, 34 >> >>,
      << 3, 1, << 4, 16, 28, 34 >> >>, << 3, 1, << 8, 12, 16, 18 >> >>,
      << 3, 1, << 8, 12, 32, 34 >> >>, << 3, 1, << 8, 16, 20, 24 >> >>,
      << 3, 1, << 12, 16, 20, 24, 28, 32 >> >>,
      << 3, 1, << 12, 16, 20, 28 >> >>, << 3, 1, << 12, 16, 32, 34 >> >>,
      << 3, 1, << 16, 20, 32, 34 >> >>, << 3, 1, << 20, 24, 32, 34 >> >>,
      << 3, 1, << 24, 28, 32, 34 >> >>, << 3, 2, << 0, 4, 12, 14 >> >>,
      << 3, 2, << 0, 4, 12, 16, 20, 24 >> >>,
      << 3, 2, << 0, 4, 12, 16, 24, 28 >> >>,
      << 3, 2, << 0, 4, 12, 16, 28, 32 >> >>, << 3, 2, << 0, 4, 20, 22 >> >>,
      << 3, 2, << 0, 4, 24, 26 >> >>, << 3, 2, << 0, 4, 24, 32 >> >>,
      << 3, 2, << 0, 4, 28, 30 >> >>, << 3, 2, << 0, 8, 12, 16 >> >>,
      << 3, 2, << 0, 8, 24, 28 >> >>, << 3, 2, << 0, 8, 28, 32 >> >>,
      << 3, 2, << 0, 12, 24, 30 >> >>, << 3, 2, << 0, 16, 24, 32 >> >>,
      << 3, 2, << 4, 8, 12, 14 >> >>, << 3, 2, << 4, 8, 12, 16, 20, 24 >> >>,
      << 3, 2, << 4, 8, 12, 16, 24, 28 >> >>,
      << 3, 2, << 4, 8, 12, 16, 28, 32 >> >>, << 3, 2, << 4, 8, 20, 22 >> >>,
      << 3, 2, << 4, 8, 24, 26 >> >>, << 3, 2, << 4, 8, 24, 32 >> >>,
      << 3, 2, << 4, 8, 28, 30 >> >>, << 3, 2, << 4, 12, 16, 32 >> >>,
      << 3, 2, << 4, 12, 24, 28 >> >>, << 3, 2, << 4, 12, 28, 32 >> >>,
      << 3, 2, << 4, 16, 24, 30 >> >>, << 3, 2, << 4, 20, 24, 32 >> >>,
      << 3, 2, << 8, 12, 16, 28, 32, 34 >> >>,
      << 3, 2, << 8, 12, 20, 22 >> >>, << 3, 2, << 8, 12, 20, 28 >> >>,
      << 3, 2, << 8, 12, 24, 26 >> >>, << 3, 2, << 8, 12, 24, 32 >> >>,
      << 3, 2, << 8, 12, 28, 30 >> >>, << 3, 2, << 8, 16, 24, 28 >> >>,
      << 3, 2, << 8, 16, 28, 32 >> >>, << 3, 2, << 8, 20, 24, 30 >> >>,
      << 3, 2, << 12, 20, 24, 28 >> >>, << 3, 2, << 12, 20, 28, 32 >> >>,
      << 3, 2, << 16, 20, 24, 26 >> >>, << 3, 2, << 16, 20, 24, 32 >> >>,
      << 3, 2, << 16, 20, 28, 30 >> >>, << 3, 2, << 16, 24, 28, 32 >> >>,
      << 3, 2, << 20, 24, 28, 30 >> >>,
      << 3, 3, << 0, 4, 8, 12, 16, 32 >> >>,
      << 3, 3, << 0, 4, 8, 12, 24, 28 >> >>,
      << 3, 3, << 0, 4, 8, 12, 28, 32 >> >>,
      << 3, 3, << 0, 4, 8, 16, 24, 30 >> >>,
      << 3, 3, << 0, 4, 8, 20, 24, 32 >> >>,
      << 3, 3, << 0, 4, 12, 16, 24, 28 >> >>,
      << 3, 3, << 0, 4, 12, 16, 28, 32 >> >>,
      << 3, 3, << 0, 4, 12, 20, 24, 30 >> >>,
      << 3, 3, << 0, 4, 16, 20, 24, 28 >> >>,
      << 3, 3, << 0, 4, 16, 20, 28, 32 >> >>,
      << 3, 3, << 0, 4, 20, 24, 28, 32 >> >>,
      << 3, 3, << 0, 8, 12, 16, 24, 30 >> >>,
      << 3, 3, << 0, 8, 12, 20, 24, 32 >> >>,
      << 3, 3, << 0, 8, 16, 20, 24, 30 >> >>,
      << 3, 3, << 0, 12, 16, 20, 24, 32 >> >>,
      << 3, 3, << 4, 8, 12, 16, 24, 28 >> >>,
      << 3, 3, << 4, 8, 12, 16, 28, 32 >> >>,
      << 3, 3, << 4, 8, 12, 20, 24, 30 >> >>,
      << 3, 3, << 4, 8, 16, 20, 24, 28 >> >>,
      << 3, 3, << 4, 8, 16, 20, 28, 32 >> >>,
      << 3, 3, << 4, 8, 20, 24, 28, 32 >> >>,
      << 3, 3, << 4, 12, 16, 20, 24, 30 >> >>,
      << 3, 3, << 8, 12, 16, 20, 24, 28 >> >>,
      << 3, 3, << 8, 12, 16, 20, 28, 32 >> >>,
      << 3, 3, << 8, 12, 16, 24, 28, 34 >> >>,
      << 3, 3, << 8, 12, 20, 24, 28, 32 >> >>,
      << 3, 3, << 12, 16, 20, 24, 28, 32 >> >>,
      << 3, 4, << 0, 4, 8, 12, 16, 20, 24, 30 >> >>,
      << 4, 1, << 0, 4, 8, 12 >> >>, << 4, 1, << 0, 4, 8, 12, 16, 24 >> >>,
      << 4, 1, << 0, 4, 16, 20 >> >>, << 4, 1, << 0, 4, 20, 24 >> >>,
      << 4, 1, << 0, 8, 16, 24 >> >>, << 4, 1, << 4, 8, 16, 20 >> >>,
      << 4, 1, << 4, 8, 20, 24 >> >>, << 4, 1, << 4, 12, 16, 24 >> >>,
      << 4, 1, << 12, 16, 20, 24 >> >>, << 4, 1, << 12, 16, 20, 32 >> >>,
      << 4, 2, << 0, 4, 12, 16 >> >>,
      << 4, 2, << 0, 4, 12, 16, 20, 24, 28, 32 >> >>,
      << 4, 2, << 0, 4, 12, 16, 20, 28 >> >>, << 4, 2, << 0, 4, 20, 32 >> >>,
      << 4, 2, << 0, 4, 24, 28 >> >>, << 4, 2, << 0, 4, 28, 32 >> >>,
      << 4, 2, << 0, 8, 12, 16, 20, 24 >> >>,
      << 4, 2, << 0, 8, 12, 16, 24, 28 >> >>,
      << 4, 2, << 0, 8, 12, 16, 28, 32 >> >>, << 4, 2, << 0, 8, 24, 32 >> >>,
      << 4, 2, << 0, 12, 20, 32 >> >>, << 4, 2, << 0, 12, 24, 28 >> >>,
      << 4, 2, << 0, 12, 28, 32 >> >>, << 4, 2, << 4, 8, 12, 16 >> >>,
      << 4, 2, << 4, 8, 12, 16, 20, 24, 28, 32 >> >>,
      << 4, 2, << 4, 8, 12, 16, 20, 28 >> >>, << 4, 2, << 4, 8, 20, 32 >> >>,
      << 4, 2, << 4, 8, 24, 28 >> >>, << 4, 2, << 4, 8, 28, 32 >> >>,
      << 4, 2, << 4, 12, 24, 32 >> >>, << 4, 2, << 4, 16, 24, 28 >> >>,
      << 4, 2, << 4, 16, 28, 32 >> >>, << 4, 2, << 8, 12, 20, 32 >> >>,
      << 4, 2, << 8, 12, 24, 28 >> >>, << 4, 2, << 8, 12, 28, 32 >> >>,
      << 4, 2, << 8, 16, 24, 32 >> >>, << 4, 2, << 8, 20, 24, 28 >> >>,
      << 4, 2, << 8, 20, 28, 32 >> >>, << 4, 2, << 12, 20, 24, 32 >> >>,
      << 4, 2, << 12, 24, 28, 32 >> >>, << 4, 2, << 16, 20, 24, 28 >> >>,
      << 4, 2, << 16, 20, 28, 32 >> >>, << 4, 2, << 20, 24, 28, 32 >> >>,
      << 4, 3, << 0, 4, 8, 12, 24, 32 >> >>,
      << 4, 3, << 0, 4, 8, 16, 24, 28 >> >>,
      << 4, 3, << 0, 4, 8, 16, 28, 32 >> >>,
      << 4, 3, << 0, 4, 12, 20, 24, 28 >> >>,
      << 4, 3, << 0, 4, 12, 20, 28, 32 >> >>,
      << 4, 3, << 0, 4, 16, 20, 24, 32 >> >>,
      << 4, 3, << 0, 4, 16, 24, 28, 32 >> >>,
      << 4, 3, << 0, 8, 12, 16, 24, 28 >> >>,
      << 4, 3, << 0, 8, 12, 16, 28, 32 >> >>,
      << 4, 3, << 0, 8, 16, 20, 24, 28 >> >>,
      << 4, 3, << 0, 8, 16, 20, 28, 32 >> >>,
      << 4, 3, << 0, 8, 20, 24, 28, 32 >> >>,
      << 4, 3, << 4, 8, 12, 20, 24, 28 >> >>,
      << 4, 3, << 4, 8, 12, 20, 28, 32 >> >>,
      << 4, 3, << 4, 8, 16, 20, 24, 32 >> >>,
      << 4, 3, << 4, 8, 16, 24, 28, 32 >> >>,
      << 4, 3, << 4, 12, 16, 20, 24, 28 >> >>,
      << 4, 3, << 4, 12, 16, 20, 28, 32 >> >>,
      << 4, 3, << 4, 12, 20, 24, 28, 32 >> >>,
      << 4, 3, << 8, 12, 16, 20, 24, 32 >> >>,
      << 4, 3, << 8, 12, 16, 24, 28, 32 >> >>,
      << 4, 3, << 8, 16, 20, 24, 28, 32 >> >>,
      << 4, 4, << 0, 4, 8, 12, 16, 20, 24, 28 >> >>,
      << 4, 4, << 0, 4, 8, 12, 16, 20, 28, 32 >> >>,
      << 4, 4, << 0, 4, 8, 12, 20, 24, 28, 32 >> >>,
      << 4, 4, << 0, 4, 12, 16, 20, 24, 28, 32 >> >>,
      << 4, 4, << 4, 8, 12, 16, 20, 24, 28, 32 >> >>
    }
    ELSE {}

\* int(max_frames * segment_proportion) for the i-th usable segment
ProportionalFrames(fps, segs, i, budget) ==
    LET exact == (budget * segs[i].duration) \div SumDuration(segs)
    IN  IF << budget, i, Boundaries(segs) >> \in LossyShares(fps)
        THEN exact - 1 ELSE exact

\* the frame quota _extract_intelligent_adaptive gives the i-th segment
SegmentQuota(fps, segs, i, budget) ==
    LET proportional_frames == ProportionalFrames(fps, segs, i, budget)
    IN  IF MoreThanSeconds(fps, segs[i].duration, 30)
        THEN Max2(proportional_frames, MinFramesPerSegment + 2)
        ELSE IF MoreThanSeconds(fps, segs[i].duration, 10)
        THEN Max2(proportional_frames, MinFramesPerSegment + 1)
        ELSE Max2(proportional_frames, MinFramesPerSegment)

\* list.sort(key=score, reverse=True) over (score, frame) pairs: stable
RECURSIVE SortByScoreDesc(_)
SortByScoreDesc(s) ==
    IF s = << >> THEN << >>
    ELSE LET rest == SortByScoreDesc(Front(s))
             x == Last(s)
             k == Cardinality({ i \in DOMAIN rest : rest[i].score >= x.score })
         IN  SubSeq(rest, 1, k) \o << x >> \o SubSeq(rest, k + 1, Len(rest))

\* _select_best_frames; scores are held in tenths (temporal_bonus 0.1 = 1)
SelectBestFrames(frames, target_count) ==
    IF Len(frames) <= target_count THEN frames
    ELSE LET frames_with_scores ==
                 [ i \in DOMAIN frames |->
                     [ score |-> (IF "motion_score" \in DOMAIN frames[i]
                                  THEN 10 * frames[i].motion_score ELSE 0)
                                 + (IF i = 1 THEN 1 ELSE 0),
                       frame |-> frames[i] ] ]
             top == Take(SortByScoreDesc(frames_with_scores), target_count)
         IN  SortByTimestamp([ i \in DOMAIN top |-> top[i].frame ])

\* frames_data after the sort of _extract_intelligent_adaptive, before the cut
IntelligentCollected(content, limit, fps, segs, budget) ==
    LET RECURSIVE Collect(_, _)
        Collect(i, acc) ==
            IF i > Len(segs) THEN acc
            ELSE IF LessThanSeconds(fps, segs[i].duration, 3) THEN Collect(i + 1, acc)
            ELSE Collect(i + 1, acc \o ExtractFramesFromSegment(content, limit, fps, segs[i],
                     SegmentQuota(fps, segs, i, budget)))
    IN  SortByTimestamp(Collect(1, << >>))

\* _extract_intelligent_adaptive without the cut to the budget
ExtractIntelligentAdaptiveUncut(content, limit, fps, segs, budget) ==
    IntelligentCollected(content, limit, fps, segs, budget)

\* _extract_intelligent_adaptive
ExtractIntelligentAdaptive(content, limit, fps, segs, budget) ==
    LET collected == IntelligentCollected(content, limit, fps, segs, budget)
    IN  IF Len(collected) > budget THEN SelectBestFrames(collected, budget)
        ELSE collected

\* _extract_motion_from_segments
ExtractMotionFromSegments(content, limit, fps, segs, budget) ==
    LET RECURSIVE Collect(_, _)
        Collect(i, acc) ==
            IF i > Len(segs) THEN acc
            ELSE IF LessThanSeconds(fps, segs[i].duration, 2) THEN Collect(i + 1, acc)
            ELSE Collect(i + 1, acc \o ExtractFramesFromSegment(content, limit, fps, segs[i],
                     Max2(1, ProportionalFrames(fps, segs, i, budget))))
    IN  Take(SortByTimestamp(Collect(1, << >>)), budget)

\* _extract_uniform_from_segments.  current_time is k * frame_interval =
\* k * total_useful_duration / budget, so current_time < total_useful_duration
\* is k < budget.
ExtractUniformFromSegments(content, limit, blackouts, segs, budget) ==
    LET total_useful_duration == SumDuration(segs)
        RECURSIVE Loop(_, _, _)
        Loop(i, k, frames) ==
            IF i > Len(segs) THEN frames
            ELSE IF k < budget
            THEN LET p == k * total_useful_duration
                     frame_number == p \div budget
                     sampled ==
                         /\ segs[i].start_time * budget <= p
                         /\ p <= segs[i].end_time * budget
                         /\ ReadOk(frame_number, limit)
                         /\ ~IsFrameBlackout(content, blackouts, frame_number)
                     next == IF sampled
                             THEN Append(frames, ProcessFrame(frame_number, Ts(p, budget)))
                             ELSE frames
                 IN  IF Len(next) >= budget THEN next ELSE Loop(i, k + 1, next)
            ELSE IF Len(frames) >= budget THEN frames
            ELSE Loop(i + 1, k, frames)
    IN  IF total_useful_duration = 0 THEN << >>
        ELSE Take(Loop(1, 0, << >>), budget)

Strategies == { "intelligent", "uniform", "motion_based" }

\* _extract_intelligent_frames, after _create_useful_segments
ExtractIntelligentFrames(content, limit, info, segs, budget, strat) ==
    IF strat = "uniform"
    THEN ExtractUniformFromSegments(content, limit, info.blackout_segments, segs, budget)
    ELSE IF strat = "motion_based"
    THEN ExtractMotionFromSegments(content, limit, info.fps, segs, budget)
    ELSE ExtractIntelligentAdaptive(content, limit, info.fps, segs, budget)

\* steps 4 and 5 of analyze_video_comprehensive_with_audio
ExtractFrames ==
    /\ pc = (IF include_audio THEN "audio" ELSE "structure")
    /\ \E strat \in Strategies, requested \in 1..MaxBudget,
          m \in MotionProfiles, c \in ContentProfiles :
         LET budget == CalculateOptimalFrameCount(video_info, requested)
             segs == CreateUsefulSegments(video_info)
         IN  /\ strategy' = strat
             /\ max_frames' = requested
             /\ adjusted_max_frames' = budget
             /\ useful_segments' = segs
             /\ footage' = Content(m, c)
             /\ frames_data' = ExtractIntelligentFrames(Content(m, c), readable,
                                   video_info, segs, budget, strat)
    /\ pc' = "sampled"
    /\ UNCHANGED << video_fps, total_frames, readable, frame_count, in_blackout,
                    blackout_start, blackout_segments, video_info >>
    /\ UNCHANGED << correlatorVars, audioVars, runVars >>
    /\ UNCHANGED serviceVars

InitSampler ==
    /\ IdleServices
    /\ IdleCorrelator
    /\ IdleAudio
    /\ IdleRun
    /\ pc = "scan"
    /\ video_fps \in FpsSet
    /\ total_frames \in 1..MaxFrames
    /\ readable = total_frames
    /\ frame_count = 0
    /\ in_blackout = FALSE
    /\ blackout_start = -1
    /\ blackout_segments = << >>
    /\ video_info = NoVideoInfo
    /\ useful_segments = << >>
    /\ strategy = "none"
    /\ max_frames = 0
    /\ adjusted_max_frames = 0
    /\ frames_data = << >>
    /\ footage = NoFootage

NextSampler == ScanFrame \/ ScanEnd \/ ScanBreak \/ ExtractFrames

SpecSampler == InitSampler /\ [][NextSampler]_vars

(***************************************************************************)
(* Claims about the video structure analyzer and the frame sampler         *)
(* (specification SpecSampler).                                            *)
(***************************************************************************)
TsInside(ts, seg) ==
    /\ TsLeq(Ts(seg.start_time, 1), ts)
    /\ TsLess(ts, Ts(seg.end_time, 1))

\* C1: every frame the sampler returns, whatever the strategy, has a
\* timestamp inside some usable segment and inside no blackout segment.
C1_FramesAvoidBlackout ==
    pc = "sampled" =>
        \A i \in DOMAIN frames_data :
            /\ \E u \in DOMAIN useful_segments :
                   TsInside(frames_data[i].timestamp, useful_segments[u])
            /\ \A b \in DOMAIN video_info.blackout_segments :
                   ~TsInside(frames_data[i].timestamp, video_info.blackout_segments[b])

\* C1 restricted to frame rates whose time-to-frame round trip is exact
C1_ExactRateAvoidsBlackout ==
    LossyFrames(video_fps) = {} => C1_FramesAvoidBlackout

\* C2: the usable segments are sorted ascending, pairwise non-overlapping,
\* disjoint from every blackout segment, and together with the blackout
\* segments they add up to the video duration.
C2_UsableSegmentsPartition ==
    pc = "sampled" =>
        /\ \A i \in DOMAIN useful_segments :
               /\ useful_segments[i].start_time < useful_segments[i].end_time
               /\ useful_segments[i].duration =
                      useful_segments[i].end_time - useful_segments[i].start_time
        /\ \A i, j \in DOMAIN useful_segments :
               i < j => useful_segments[i].end_time <= useful_segments[j].start_time
        /\ \A u \in DOMAIN useful_segments, b \in DOMAIN video_info.blackout_segments :
               \/ useful_segments[u].end_time <= video_info.blackout_segments[b].start_time
               \/ video_info.blackout_segments[b].end_time <= useful_segments[u].start_time
        /\ SumDuration(useful_segments) + SumDuration(video_info.blackout_segments)
               = video_info.duration

C2_Witness ==
    /\ pc = "sampled"
    /\ Len(useful_segments) >= 2
    /\ Len(video_info.blackout_segments) >= 2

\* C3: the sampler never returns more frames than the requested budget.
C3_FrameCountWithinBudget ==
    pc = "sampled" => Len(frames_data) <= max_frames

\* the per-segment quotas of the intelligent strategy, added up
RECURSIVE QuotaSum(_, _, _, _)
QuotaSum(fps, segs, i, budget) ==
    IF i > Len(segs) THEN 0
    ELSE (IF LessThanSeconds(fps, segs[i].duration, 3) THEN 0
          ELSE SegmentQuota(fps, segs, i, budget))
         + QuotaSum(fps, segs, i + 1, budget)

\* the minimum-frame floors add up to more than the budget, and the budget is met
C3_Witness ==
    /\ pc = "sampled"
    /\ strategy = "intelligent"
    /\ QuotaSum(video_fps, useful_segments, 1, max_frames)
           > max_frames
    /\ Len(frames_data) = max_frames

(***************************************************************************)
(* Violation correlator.  Times are held in thirds of a second, the time   *)
(* one word takes in _estimate_time_offset; a confidence is held in        *)
(* hundredths.  A text is the sequence of its words.                       *)
(***************************************************************************)
MaxFindings == 3     \* most frame findings handed to the correlator
MaxSegments == 2     \* most transcription segments handed to the correlator

WordsPerSecond == 3
Seconds(n) == n * WordsPerSecond

\* str.lower() on the words of the model
LowerWord(w) ==
    CASE w = "Taser" -> "taser"
      [] w = "Subscribe" -> "subscribe"
      [] OTHER -> w

Lower(text) == [i \in DOMAIN text |-> LowerWord(text[i])]

\* audio_event_triggers, category by category.  A pattern of whole-word
\* alternatives is the list of its alternatives; the K-9 pattern
\* \b(dog|k-9).*(bite|fight|rip)\b is a span from one of its first words to
\* one of its last words.  (help me.?){2,} is given with the repetitions a
\* text of the model has room for, the longest first.
AudioEventTriggers ==
    << [ alternatives |-> << <<"taser">>, <<"taze">> >>,
         first |-> {}, last |-> {},
         severity |-> "high", confidence |-> 90,
         description |-> "Taser deployment threatened or initiated" ],
       [ alternatives |-> << >>,
         first |-> {"dog", "k-9"}, last |-> {"bite", "fight", "rip"},
         severity |-> "high", confidence |-> 85,
         description |-> "K-9 unit deployment threatened or initiated" ],
       [ alternatives |-> << <<"stop", "moving">>,
                             <<"help", "me", "help", "me", "help", "me">>,
                             <<"help", "me", "help", "me">> >>,
         first |-> {}, last |-> {},
         severity |-> "high", confidence |-> 75,
         description |-> "Physical struggle and restraint of suspect" ],
       [ alternatives |-> << <<"get", "out", "right", "now">>,
                             <<"get", "your", "hands", "up">> >>,
         first |-> {}, last |-> {},
         severity |-> "medium", confidence |-> 80,
         description |-> "Officers issuing direct commands to suspect" ],
       [ alternatives |-> << <<"last", "warning">>, <<"last", "chance">> >>,
         first |-> {}, last |-> {},
         severity |-> "medium", confidence |-> 88,
         description |-> "Final warning issued before action" ] >>

\* the run of words gram starts at position i of words
GramAt(words, gram, i) ==
    /\ i + Len(gram) - 1 <= Len(words)
    /\ \A k \in 1..Len(gram) : words[i + k - 1] = gram[k]

\* length of the first alternative that matches at position i, 0 if none
RECURSIVE MatchLenFrom(_, _, _, _)
MatchLenFrom(words, alternatives, i, a) ==
    IF a > Len(alternatives) THEN 0
    ELSE IF GramAt(words, alternatives[a], i) THEN Len(alternatives[a])
    ELSE MatchLenFrom(words, alternatives, i, a + 1)

\* the start positions of the non-overlapping matches, left to right
RECURSIVE FindIterFrom(_, _, _)
FindIterFrom(words, alternatives, i) ==
    IF i > Len(words) THEN << >>
    ELSE LET n == MatchLenFrom(words, alternatives, i, 1)
         IN  IF n > 0
             THEN << i >> \o FindIterFrom(words, alternatives, i + n)
             ELSE FindIterFrom(words, alternatives, i + 1)

\* a greedy span: one match, from the earliest first word to the latest last word
SpanStarts(words, first, last) ==
    LET firsts == { i \in DOMAIN words : words[i] \in first }
        lasts == { j \in DOMAIN words : words[j] \in last }
    IN  IF firsts = {} \/ lasts = {} THEN << >>
        ELSE LET i == CHOOSE x \in firsts : \A y \in firsts : x <= y
             IN  IF \E j \in lasts : j > i THEN << i >> ELSE << >>

\* re.finditer(pattern, text): where the matches start
FindIter(trigger, words) ==
    IF trigger.first # {}
    THEN SpanStarts(words, trigger.first, trigger.last)
    ELSE FindIterFrom(words, trigger.alternatives, 1)

\* _estimate_time_offset: words before the match, at three words a second
EstimateTimeOffset(position) == position - 1

Violation(timestamp, type, description, severity, confidence, source) ==
    [ timestamp |-> timestamp, type |-> type, description |-> description,
      severity |-> severity, confidence |-> confidence, source |-> source ]

\* the violations one trigger finds in one segment
TriggerViolations(seg, trigger) ==
    LET starts == FindIter(trigger, Lower(seg.text))
    IN  [ k \in DOMAIN starts |->
            Violation(seg.start_time + EstimateTimeOffset(starts[k]),
                      trigger.description, trigger.description,
                      trigger.severity, trigger.confidence, "audio") ]

RECURSIVE SegmentViolationsFrom(_, _)
SegmentViolationsFrom(seg, t) ==
    IF t > Len(AudioEventTriggers) THEN << >>
    ELSE TriggerViolations(seg, AudioEventTriggers[t]) \o SegmentViolationsFrom(seg, t + 1)

SegmentViolations(seg) == SegmentViolationsFrom(seg, 1)

\* _extract_violations_from_audio
RECURSIVE ExtractViolationsFromAudio(_)
ExtractViolationsFromAudio(segments) ==
    IF segments = << >> THEN << >>
    ELSE SegmentViolations(Head(segments)) \o ExtractViolationsFromAudio(Tail(segments))

\* violation_text.replace('_', ' ').title()
TitleCase(tag) ==
    CASE tag = "excessive force" -> "Excessive Force"
      [] tag = "weapon misuse" -> "Weapon Misuse"
      [] OTHER -> tag

FrameViolations(frame) ==
    IF frame.concerns_detected /\ frame.potential_violations # << >>
    THEN [ k \in DOMAIN frame.potential_violations |->
             Violation(frame.timestamp, TitleCase(frame.potential_violations[k]),
                       frame.potential_violations[k], frame.severity_level,
                       frame.confidence, "video") ]
    ELSE << >>

\* _extract_violations_from_frames
RECURSIVE ExtractViolationsFromFrames(_)
ExtractViolationsFromFrames(frames) ==
    IF frames = << >> THEN << >>
    ELSE FrameViolations(Head(frames)) \o ExtractViolationsFromFrames(Tail(frames))

\* list.sort(key=lambda x: x['timestamp']): stable
RECURSIVE InsertViolation(_, _)
InsertViolation(sorted, v) ==
    IF sorted = << >> THEN << v >>
    ELSE IF Last(sorted).timestamp <= v.timestamp THEN Append(sorted, v)
    ELSE Append(InsertViolation(Front(sorted), v), Last(sorted))

RECURSIVE SortViolations(_)
SortViolations(list) ==
    IF list = << >> THEN << >>
    ELSE InsertViolation(SortViolations(Front(list)), Last(list))

\* is_same_type and is_close_in_time
IsDuplicateWithin(current, last) ==
    /\ current.type = last.type
    /\ Abs(current.timestamp - last.timestamp) <= Seconds(5)

IsDuplicate(current, last) ==
    /\ current.type = last.type
    /\ Abs(current.timestamp - last.timestamp) < Seconds(5)

\* the confidence last_violation has after meeting a duplicate
MergeConfidenceLatest(current, last) == current.confidence

MergeConfidence(current, last) ==
    IF current.confidence > last.confidence THEN current.confidence ELSE last.confidence

\* one iteration of the loop over combined[1:]; last_violation is the last
\* element of deduplicated
DedupStepAppending(dedup, current) ==
    IF IsDuplicate(current, Last(dedup))
    THEN Append([dedup EXCEPT ![Len(dedup)].confidence =
                                  MergeConfidence(current, Last(dedup))], current)
    ELSE Append(dedup, current)

\* the duplicate takes the place of last_violation, with the higher confidence
DedupStepReplacing(dedup, current) ==
    IF IsDuplicate(current, Last(dedup))
    THEN [dedup EXCEPT ![Len(dedup)] =
             [current EXCEPT !.confidence = MergeConfidence(current, Last(dedup))]]
    ELSE Append(dedup, current)

DedupStep(dedup, current) ==
    IF IsDuplicate(current, Last(dedup))
    THEN [dedup EXCEPT ![Len(dedup)].confidence = MergeConfidence(current, Last(dedup))]
    ELSE Append(dedup, current)

\* deduplicated after the loop has taken the first n elements of sorted
RECURSIVE DedupLoop(_, _)
DedupLoop(sorted, n) ==
    IF n = 0 THEN << >>
    ELSE IF n = 1 THEN << sorted[1] >>
    ELSE DedupStep(DedupLoop(sorted, n - 1), sorted[n])

\* _combine_and_deduplicate
CombineAndDeduplicate(frame_violations, audio_violations) ==
    LET sorted == SortViolations(frame_violations \o audio_violations)
    IN  DedupLoop(sorted, Len(sorted))

(***************************************************************************)
(* _detect_violations_with_audio_context.  A priority score is held in     *)
(* units of 1/100000.                                                      *)
(***************************************************************************)
\* severity_multipliers with the values of low and high exchanged
SeverityMultiplierExchanged(severity) ==
    CASE severity = "low" -> 13
      [] severity = "medium" -> 10
      [] severity = "high" -> 7
      [] severity = "critical" -> 15
      [] OTHER -> 10

SeverityMultiplier(severity) ==
    CASE severity = "low" -> 7
      [] severity = "medium" -> 10
      [] severity = "high" -> 13
      [] severity = "critical" -> 15
      [] OTHER -> 10

\* the words of the model that hold one of priority_keywords as a substring
PriorityKeywordWords == { "stop", "help", "please", "no", "now", "officer", "sir" }

NearbySegment(seg, timestamp) ==
    [ start_time |-> seg.start_time, end_time |-> seg.end_time, text |-> seg.text,
      confidence |-> seg.confidence, time_offset |-> seg.start_time - timestamp ]

RECURSIVE NearbySegments(_, _)
NearbySegments(segments, timestamp) ==
    IF segments = << >> THEN << >>
    ELSE LET seg == Head(segments)
             rest == NearbySegments(Tail(segments), timestamp)
         IN  IF ~seg.is_hallucination /\ Abs(seg.start_time - timestamp) <= Seconds(30)
             THEN << NearbySegment(seg, timestamp) >> \o rest
             ELSE rest

\* nearby_segments.sort(key=lambda x: abs(x['time_offset'])): stable
RECURSIVE InsertByProximity(_, _)
InsertByProximity(sorted, n) ==
    IF sorted = << >> THEN << n >>
    ELSE IF Abs(Last(sorted).time_offset) <= Abs(n.time_offset) THEN Append(sorted, n)
    ELSE Append(InsertByProximity(Front(sorted), n), Last(sorted))

RECURSIVE SortByProximity(_)
SortByProximity(list) ==
    IF list = << >> THEN << >>
    ELSE InsertByProximity(SortByProximity(Front(list)), Last(list))

\* the context whose closest segment is the first nearby segment of the
\* transcription, the list left unsorted
AudioContextFirstListed(segments, timestamp) ==
    LET nearby == NearbySegments(segments, timestamp)
    IN  IF nearby = << >> THEN << >>
        ELSE << [ closest_segment |-> nearby[1],
                  all_nearby_segments |-> Take(nearby, 3) ] >>

\* None is the empty sequence, a context a sequence of one record
AudioContext(segments, timestamp) ==
    LET nearby == SortByProximity(NearbySegments(segments, timestamp))
    IN  IF nearby = << >> THEN << >>
        ELSE << [ closest_segment |-> nearby[1],
                  all_nearby_segments |-> Take(nearby, 3) ] >>

\* _calculate_violation_priority without its cap
CalculateViolationPriorityUncapped(frame, audio_context) ==
    LET base == frame.confidence * SeverityMultiplier(frame.severity_level)
        closest == audio_context[1].closest_segment
        near == IF audio_context # << >> /\ closest.confidence > 70
                   /\ Abs(closest.time_offset) < Seconds(10)
                THEN 12 ELSE 10
        keyword == IF audio_context # << >>
                      /\ \E i \in DOMAIN closest.text :
                            LowerWord(closest.text[i]) \in PriorityKeywordWords
                   THEN 11 ELSE 10
    IN  base * near * keyword

\* _calculate_violation_priority
CalculateViolationPriority(frame, audio_context) ==
    LET base == frame.confidence * SeverityMultiplier(frame.severity_level)
        closest == audio_context[1].closest_segment
        near == IF audio_context # << >> /\ closest.confidence > 70
                   /\ Abs(closest.time_offset) < Seconds(10)
                THEN 12 ELSE 10
        keyword == IF audio_context # << >>
                      /\ \E i \in DOMAIN closest.text :
                            LowerWord(closest.text[i]) \in PriorityKeywordWords
                   THEN 11 ELSE 10
    IN  Min2(base * near * keyword, 100000)

EnhancedViolations(frame, segments) ==
    IF ~frame.concerns_detected THEN << >>
    ELSE [ k \in DOMAIN frame.potential_violations |->
             LET audio_context == AudioContext(segments, frame.timestamp)
             IN  [ timestamp |-> frame.timestamp,
                   type |-> frame.potential_violations[k],
                   severity |-> frame.severity_level,
                   confidence |-> frame.confidence,
                   audio_context |-> audio_context,
                   priority_score |-> CalculateViolationPriority(frame, audio_context) ] ]

RECURSIVE CollectEnhancedViolations(_, _)
CollectEnhancedViolations(frames, segments) ==
    IF frames = << >> THEN << >>
    ELSE EnhancedViolations(Head(frames), segments)
           \o CollectEnhancedViolations(Tail(frames), segments)

\* violations.sort(key=lambda x: x['priority_score'], reverse=True): stable
RECURSIVE InsertByPriority(_, _)
InsertByPriority(sorted, v) ==
    IF sorted = << >> THEN << v >>
    ELSE IF Last(sorted).priority_score >= v.priority_score THEN Append(sorted, v)
    ELSE Append(InsertByPriority(Front(sorted), v), Last(sorted))

RECURSIVE SortByPriority(_)
SortByPriority(list) ==
    IF list = << >> THEN << >>
    ELSE InsertByPriority(SortByPriority(Front(list)), Last(list))

DetectViolationsWithAudioContext(frames, segments) ==
    SortByPriority(CollectEnhancedViolations(frames, segments))

(***************************************************************************)
(* The findings handed to the correlator.                                  *)
(***************************************************************************)
FrameTimes == { 0, Seconds(2), Seconds(5), Seconds(34) }

\* what analyze_frame made of a frame: concerns_detected, potential_violations,
\* severity_level
FrameReadings ==
    { [ concerns_detected |-> TRUE, potential_violations |-> << "excessive force" >>,
        severity_level |-> "high" ],
      [ concerns_detected |-> TRUE,
        potential_violations |-> << "excessive force", "weapon misuse" >>,
        severity_level |-> "medium" ],
      [ concerns_detected |-> FALSE, potential_violations |-> << "excessive force" >>,
        severity_level |-> "high" ] }

FrameConfidences == { 60, 80 }

FrameFindings ==
    { [ timestamp |-> t, confidence |-> c,
        concerns_detected |-> r.concerns_detected,
        potential_violations |-> r.potential_violations,
        severity_level |-> r.severity_level ] :
      t \in FrameTimes, c \in FrameConfidences, r \in FrameReadings }

\* frames_data is sorted by timestamp and holds a frame once
FrameAnalysesInputs ==
    { f \in UNION { [1..n -> FrameFindings] : n \in 0..MaxFindings } :
        \A i \in 1..(Len(f) - 1) : f[i].timestamp < f[i + 1].timestamp }

SegmentStarts == { 0, Seconds(3) }

SegmentTexts == { << "Taser", "taser" >>, << "stop", "moving", "last", "warning" >> }

\* a transcription segment as transcribe_audio_segments builds it: a clean one,
\* or one flagged for its low confidence
TranscriptionFindings ==
    { [ start_time |-> t, end_time |-> t + Seconds(3), text |-> x,
        confidence |-> IF h THEN 30 ELSE 80, language |-> "en",
        is_hallucination |-> h,
        hallucination_indicators |-> IF h THEN << << "Low confidence", 30 >> >>
                                          ELSE << >> ] :
      t \in SegmentStarts, x \in SegmentTexts, h \in BOOLEAN }

TranscriptionInputs ==
    { f \in UNION { [1..n -> TranscriptionFindings] : n \in 0..MaxSegments } :
        \A i \in 1..(Len(f) - 1) : f[i].start_time < f[i + 1].start_time }

\* ViolationAnalysisService.analyze
Analyze ==
    /\ cpc = "input"
    /\ LET frame_violations == ExtractViolationsFromFrames(frame_analyses)
           audio_violations == ExtractViolationsFromAudio(transcription_segments)
       IN  /\ combined' = SortViolations(frame_violations \o audio_violations)
           /\ deduplicated' = CombineAndDeduplicate(frame_violations, audio_violations)
           /\ violation_timeline' = SortViolations(deduplicated')
    /\ cpc' = "analyzed"
    /\ UNCHANGED << frame_analyses, second_pass, violations, transcription_segments >>
    /\ UNCHANGED runVars
    /\ UNCHANGED << samplerVars, apc, model_size, whisper_model, confidence_threshold,
                    audio_segments, stt_results, earlier_call, later_call >>
    /\ UNCHANGED serviceVars

\* _combine_and_deduplicate on its own result
DeduplicateAgain ==
    /\ cpc = "analyzed"
    /\ second_pass' = CombineAndDeduplicate(deduplicated, << >>)
    /\ cpc' = "again"
    /\ UNCHANGED << frame_analyses, combined, deduplicated, violation_timeline, violations >>
    /\ UNCHANGED << samplerVars, audioVars, runVars >>
    /\ UNCHANGED serviceVars

\* step 7 of analyze_video_comprehensive_with_audio
DetectViolations ==
    /\ cpc = "input"
    /\ violations' = DetectViolationsWithAudioContext(frame_analyses, transcription_segments)
    /\ cpc' = "detected"
    /\ UNCHANGED << frame_analyses, combined, deduplicated, second_pass, violation_timeline >>
    /\ UNCHANGED << samplerVars, audioVars, runVars >>
    /\ UNCHANGED serviceVars

InitCorrelator ==
    /\ IdleServices
    /\ InitSamplerIdle
    /\ IdleService
    /\ apc = "idle"
    /\ audio_segments = << >>
    /\ stt_results = << >>
    /\ transcription_segments \in TranscriptionInputs
    /\ cpc = "input"
    /\ frame_analyses \in FrameAnalysesInputs
    /\ combined = << >>
    /\ deduplicated = << >>
    /\ second_pass = << >>
    /\ violation_timeline = << >>
    /\ violations = << >>

NextCorrelator == Analyze \/ DeduplicateAgain \/ DetectViolations

SpecCorrelator == InitCorrelator /\ [][NextCorrelator]_vars

(***************************************************************************)
(* Claims about the violation correlator (specification SpecCorrelator).   *)
(***************************************************************************)
\* the positions of list that the rule of C4 keeps among the first n
RECURSIVE KeptByRule(_, _)
KeptByRule(list, n) ==
    IF n = 0 THEN << >>
    ELSE LET kept == KeptByRule(list, n - 1)
         IN  IF /\ kept # << >>
                /\ list[n].type = list[Last(kept)].type
                /\ Abs(list[n].timestamp - list[Last(kept)].timestamp) < Seconds(5)
             THEN kept
             ELSE Append(kept, n)

SameButConfidence(v, w) ==
    /\ v.timestamp = w.timestamp
    /\ v.type = w.type
    /\ v.description = w.description
    /\ v.severity = w.severity
    /\ v.source = w.source

\* C4: the deduplication pass scans the combined violations in ascending
\* timestamp order and discards a violation exactly when it has the type of
\* the most recently kept violation and lies less than 5 s from it; what is
\* kept is every other violation, in order.
C4_DiscardedExactlyWhenDuplicate ==
    cpc = "analyzed" =>
        LET kept == KeptByRule(combined, Len(combined))
        IN  /\ \A n \in 1..(Len(combined) - 1) :
                   combined[n].timestamp <= combined[n + 1].timestamp
            /\ Len(deduplicated) = Len(kept)
            /\ \A i \in DOMAIN kept :
                   SameButConfidence(deduplicated[i], combined[kept[i]])

\* a violation was discarded, two violations of one type exactly 5 s apart
\* were both kept, and so were two of one type less than 5 s apart that have
\* a violation of another type between them
C4_Witness ==
    /\ cpc = "analyzed"
    /\ Len(deduplicated) < Len(combined)
    /\ \E i, j \in DOMAIN deduplicated :
          /\ i < j
          /\ deduplicated[i].type = deduplicated[j].type
          /\ deduplicated[j].timestamp - deduplicated[i].timestamp = Seconds(5)
    /\ \E i, j \in DOMAIN deduplicated :
          /\ i + 1 < j
          /\ deduplicated[i].type = deduplicated[j].type
          /\ deduplicated[j].timestamp - deduplicated[i].timestamp < Seconds(5)

\* the positions of combined merged into the i-th kept violation, itself included
MergedInto(kept, i) ==
    { n \in DOMAIN combined :
        /\ kept[i] <= n
        /\ i < Len(kept) => n < kept[i + 1] }

\* C5: after deduplication the confidence of each kept violation is the
\* largest among its own confidence and those of the violations merged into it.
C5_KeptConfidenceIsMaximum ==
    cpc = "analyzed" =>
        LET kept == KeptByRule(combined, Len(combined))
        IN  \A i \in DOMAIN deduplicated :
               /\ \E n \in MergedInto(kept, i) :
                     deduplicated[i].confidence = combined[n].confidence
               /\ \A n \in MergedInto(kept, i) :
                     deduplicated[i].confidence >= combined[n].confidence

\* two violations of one type 2 s apart with confidences 0.6 and 0.8 became
\* one violation with confidence 0.8
C5_Witness ==
    /\ cpc = "analyzed"
    /\ \E n \in 1..(Len(combined) - 1) :
          /\ combined[n].type = combined[n + 1].type
          /\ combined[n + 1].timestamp - combined[n].timestamp = Seconds(2)
          /\ combined[n].confidence = 60
          /\ combined[n + 1].confidence = 80
          /\ \E i \in DOMAIN deduplicated :
                /\ SameButConfidence(deduplicated[i], combined[n])
                /\ deduplicated[i].confidence = 80
          /\ Len(deduplicated) = Len(combined) - 1

\* C6: the deduplication pass applied to its own output returns that output:
\* nothing more is discarded and no confidence changes.
C6_DeduplicationIdempotent ==
    cpc = "again" => second_pass = deduplicated

\* the second pass ran on the output of a pass that had merged violations
\* and raised a confidence
C6_Witness ==
    /\ cpc = "again"
    /\ Len(deduplicated) >= 2
    /\ Len(deduplicated) < Len(combined)
    /\ \E i \in DOMAIN deduplicated :
          \A n \in DOMAIN combined :
             SameButConfidence(deduplicated[i], combined[n])
                => deduplicated[i].confidence > combined[n].confidence

\* C7: a transcription segment flagged as hallucination stays in the
\* transcription list but contributes nothing: every audio violation of the
\* timeline is extracted from a segment that is not flagged, and the audio
\* context of a video violation is never a flagged segment.
C7_HallucinationsNeverContribute ==
    /\ cpc = "analyzed" =>
         \A k \in DOMAIN violation_timeline :
            violation_timeline[k].source = "audio" =>
               \E i \in DOMAIN transcription_segments :
                  /\ ~transcription_segments[i].is_hallucination
                  /\ \E v \in SeqRange(SegmentViolations(transcription_segments[i])) :
                        SameButConfidence(v, violation_timeline[k])
    /\ cpc = "detected" =>
         \A k \in DOMAIN violations :
            \A c \in SeqRange(violations[k].audio_context) :
               \A n \in SeqRange(c.all_nearby_segments) :
                  \E i \in DOMAIN transcription_segments :
                     /\ ~transcription_segments[i].is_hallucination
                     /\ transcription_segments[i].start_time = n.start_time
                     /\ transcription_segments[i].text = n.text

(***************************************************************************)
(* Transcription engine and hallucination filter.  A text is the sequence  *)
(* of its words, with " " standing for leading or trailing white space; a  *)
(* duration is held in thirds of a second, a confidence in hundredths.     *)
(***************************************************************************)
MaxAudioSegments == 2    \* most AudioSegments handed to transcribe_audio_segments

\* str.strip()
RECURSIVE Strip(_)
Strip(text) ==
    IF text = << >> THEN << >>
    ELSE IF Head(text) = " " THEN Strip(Tail(text))
    ELSE IF Last(text) = " " THEN Strip(Front(text))
    ELSE text

\* str.split()
RECURSIVE Split(_)
Split(text) ==
    IF text = << >> THEN << >>
    ELSE IF Head(text) = " " THEN Split(Tail(text))
    ELSE << Head(text) >> \o Split(Tail(text))

\* hallucination_patterns, in order: a pattern "first .* later" by the runs of
\* whole words of its two ends, a pattern "^ ... $" by the words of the model
\* that it matches as a text
HallucinationPatterns ==
    << [ first |-> << <<"thank", "you">>, <<"thanks">> >>,
         later |-> << <<"watching">>, <<"listening">> >>, whole |-> {} ],
       [ first |-> << <<"subscribe">> >>, later |-> << <<"channel">> >>, whole |-> {} ],
       [ first |-> << <<"like">> >>, later |-> << <<"comment">> >>, whole |-> {} ],
       [ first |-> << <<"background", "music">>, <<"ambient", "music">> >>,
         later |-> << <<"playing">>, <<"in", "the", "background">> >>, whole |-> {} ],
       [ first |-> << >>, later |-> << >>, whole |-> {"<notes>"} ],
       [ first |-> << >>, later |-> << >>, whole |-> {"[music]"} ],
       [ first |-> << >>, later |-> << >>, whole |-> {"(static)"} ],
       [ first |-> << >>, later |-> << >>, whole |-> {"[static]"} ],
       [ first |-> << >>, later |-> << >>, whole |-> {"(silence)"} ],
       [ first |-> << >>, later |-> << >>, whole |-> {"[silence]"} ] >>

\* re.search(pattern, text.lower())
SearchPattern(pattern, words) ==
    \/ \E i \in DOMAIN words, f \in DOMAIN pattern.first :
          /\ GramAt(words, pattern.first[f], i)
          /\ \E j \in (i + Len(pattern.first[f]))..Len(words), l \in DOMAIN pattern.later :
                GramAt(words, pattern.later[l], j)
    \/ /\ Len(words) = 1
       /\ words[1] \in pattern.whole

RECURSIVE PatternIndicatorsFrom(_, _)
PatternIndicatorsFrom(words, k) ==
    IF k > Len(HallucinationPatterns) THEN << >>
    ELSE (IF SearchPattern(HallucinationPatterns[k], words)
          THEN << << "Suspicious pattern", k >> >> ELSE << >>)
         \o PatternIndicatorsFrom(words, k + 1)

\* max(word_counts.values())
MaxRepetition(words) ==
    LET count(w) == Cardinality({ i \in DOMAIN words : words[i] = w })
    IN  IF words = << >> THEN 0
        ELSE CHOOSE c \in 1..Len(words) :
                /\ \E i \in DOMAIN words : count(words[i]) = c
                /\ \A i \in DOMAIN words : count(words[i]) <= c

\* len(words) > 3 and max_repetition > len(words) * 0.3
ExcessiveRepetitionAboveHalf(words) ==
    /\ Len(words) > 3
    /\ 10 * MaxRepetition(words) > 6 * Len(words)

ExcessiveRepetition(words) ==
    /\ Len(words) > 3
    /\ 10 * MaxRepetition(words) > 3 * Len(words)

\* generic_phrases that are substrings of the lowered text: no word of the
\* model holds one inside another word
GenericPhrases == << <<"um">>, <<"uh">>, <<"you", "know">>, <<"like">>, <<"so">>, <<"well">> >>

GenericCount(words) ==
    Cardinality({ g \in DOMAIN GenericPhrases :
                    \E i \in DOMAIN words : GramAt(words, GenericPhrases[g], i) })

\* detect_hallucinations; service holds the attributes of the service
DetectHallucinationsByModel(service, text, confidence, segment_duration) ==
    LET words == Split(text)
        threshold == IF service.model_size = "base" THEN service.confidence_threshold
                     ELSE 70
        indicators ==
            PatternIndicatorsFrom(Lower(words), 1)
            \o (IF confidence < threshold
                THEN << << "Low confidence", confidence >> >> ELSE << >>)
            \o (IF ExcessiveRepetition(words)
                THEN << << "Excessive word repetition" >> >> ELSE << >>)
            \o (IF WordsPerSecond * Len(words) > 5 * segment_duration
                THEN << << "Unrealistic speaking rate" >> >> ELSE << >>)
            \o (IF 2 * GenericCount(Lower(words)) > Len(words)
                THEN << << "Excessive filler words" >> >> ELSE << >>)
    IN  [ is_hallucination |-> indicators # << >>, indicators |-> indicators ]

DetectHallucinations(service, text, confidence, segment_duration) ==
    LET words == Split(text)
        pattern_found == \E k \in DOMAIN HallucinationPatterns :
                             SearchPattern(HallucinationPatterns[k], Lower(words))
        low_confidence == confidence < service.confidence_threshold
        repetition == ExcessiveRepetition(words)
        speaking_rate == WordsPerSecond * Len(words) > 5 * segment_duration
        filler == 2 * GenericCount(Lower(words)) > Len(words)
        indicators ==
            PatternIndicatorsFrom(Lower(words), 1)
            \o (IF low_confidence
                THEN << << "Low confidence", confidence >> >> ELSE << >>)
            \o (IF repetition
                THEN << << "Excessive word repetition" >> >> ELSE << >>)
            \o (IF speaking_rate
                THEN << << "Unrealistic speaking rate" >> >> ELSE << >>)
            \o (IF filler
                THEN << << "Excessive filler words" >> >> ELSE << >>)
    IN  [ is_hallucination |-> \/ pattern_found
                               \/ low_confidence
                               \/ repetition
                               \/ speaking_rate
                               \/ filler,
          indicators |-> indicators ]

\* the attributes of the service
Service ==
    [ model_size |-> model_size, whisper_model |-> whisper_model,
      confidence_threshold |-> confidence_threshold ]

\* np.mean
RECURSIVE Sum(_)
Sum(list) == IF list = << >> THEN 0 ELSE Head(list) + Sum(Tail(list))

Mean(list) == Sum(list) \div Len(list)

\* language != 'en' and language != 'english'
NonEnglish(language) == language # "en" /\ language # "english"

\* the check of the language flags the finding and records no reason
LanguageIndicatorsOmitted(language) == << >>

\* what the check of the language appends to the indicators
LanguageIndicators(language) ==
    IF NonEnglish(language)
    THEN << << "Non-English language detected", language >> >>
    ELSE << >>

\* the body of the loop of transcribe_audio_segments: the list after the
\* segment, given what model.transcribe did
TranscribeSegment(service, segment, result, list) ==
    IF result.raised THEN list
    ELSE LET text == Strip(result.text) IN
         IF text = << >> THEN list
         ELSE LET confidence == IF result.confidences # << >>
                                THEN Mean(result.confidences)
                                ELSE Min2(segment.confidence, 80)
                  detected == DetectHallucinations(service, text, confidence,
                                                   segment.duration)
                  fast == WordsPerSecond * Len(Split(text)) > 4 * segment.duration
                  rate == IF fast THEN << << "Unrealistic speech rate" >> >> ELSE << >>
                  indicators == detected.indicators
                                    \o LanguageIndicators(result.language) \o rate
              IN  Append(list,
                         [ start_time |-> segment.start_time,
                           end_time |-> segment.end_time,
                           text |-> text,
                           confidence |-> confidence,
                           language |-> result.language,
                           is_hallucination |-> \/ detected.is_hallucination
                                                \/ NonEnglish(result.language)
                                                \/ fast,
                           hallucination_indicators |-> indicators ])

\* _load_whisper_model; "None" is the argument None and the model not loaded
LoadWhisperModel(size) ==
    /\ model_size' = IF size # "None" THEN size ELSE model_size
    /\ whisper_model' = IF whisper_model = "None" \/ size # "None"
                        THEN model_size' ELSE whisper_model

ModelSizes == { "base", "small" }

\* the AudioSegments of segment_audio_by_activity: duration and confidence of
\* each, a second of silence between two segments
SegmentShapes ==
    { [ duration |-> Seconds(1), confidence |-> 90 ],
      [ duration |-> Seconds(3), confidence |-> 90 ],
      [ duration |-> Seconds(3), confidence |-> 30 ] }

RECURSIVE AudioSegmentsFrom(_, _)
AudioSegmentsFrom(shapes, start) ==
    IF shapes = << >> THEN << >>
    ELSE << [ start_time |-> start,
              end_time |-> start + Head(shapes).duration,
              duration |-> Head(shapes).duration,
              confidence |-> Head(shapes).confidence ] >>
         \o AudioSegmentsFrom(Tail(shapes), start + Head(shapes).duration + Seconds(1))

AudioSegmentInputs ==
    { AudioSegmentsFrom(shapes, 0) :
        shapes \in UNION { [1..n -> SegmentShapes] : n \in 0..MaxAudioSegments } }

\* result['text'] of model.transcribe
SttTexts ==
    { << " " >>,
      << " ", "stop", "resisting", "stop", "resisting", "stop", "resisting", "stop" >>,
      << "Subscribe", "to", "my", "channel" >>,
      << " ", "put", "your", "hands", "up" >>,
      << "get", "out", "of", "the", "car" >>,
      << "so", "well" >> }

\* min(exp(avg_logprob), 1.0) of result['segments']; empty: no segments
SttConfidences == { << >>, << 30 >>, << 30, 90 >> }

\* what model.transcribe does for a segment: it raises, or it returns a result
SttResults ==
    { [ raised |-> TRUE, text |-> << >>, language |-> "en", confidences |-> << >> ] }
    \cup { [ raised |-> FALSE, text |-> x, language |-> "en", confidences |-> c ] :
             x \in SttTexts, c \in SttConfidences }
    \cup { [ raised |-> FALSE, text |-> << " ", "put", "your", "hands", "up" >>,
             language |-> "ko", confidences |-> << 30, 90 >> ] }

\* transcribe_audio_segments is entered: the model is loaded
TranscribeStart ==
    /\ apc = "ready"
    /\ \E size \in ModelSizes : LoadWhisperModel(size)
    /\ transcription_segments' = << >>
    /\ stt_results' = << >>
    /\ apc' = "loop"
    /\ UNCHANGED << confidence_threshold, audio_segments, earlier_call, later_call >>
    /\ UNCHANGED << samplerVars, correlatorVars, runVars >>
    /\ UNCHANGED serviceVars

\* one iteration of the loop over audio_segments
TranscribeStep ==
    /\ apc = "loop"
    /\ Len(stt_results) < Len(audio_segments)
    /\ \E result \in SttResults :
          /\ stt_results' = Append(stt_results, result)
          /\ transcription_segments' =
                TranscribeSegment(Service, audio_segments[Len(stt_results) + 1],
                                  result, transcription_segments)
    /\ UNCHANGED << apc, model_size, whisper_model, confidence_threshold,
                    audio_segments, earlier_call, later_call >>
    /\ UNCHANGED << samplerVars, correlatorVars, runVars >>
    /\ UNCHANGED serviceVars

\* the loop is over: return transcription_segments
TranscribeReturn ==
    /\ apc = "loop"
    /\ Len(stt_results) = Len(audio_segments)
    /\ apc' = "returned"
    /\ UNCHANGED << model_size, whisper_model, confidence_threshold, audio_segments,
                    stt_results, transcription_segments, earlier_call, later_call >>
    /\ UNCHANGED << samplerVars, correlatorVars, runVars >>
    /\ UNCHANGED serviceVars

InitAudio ==
    /\ IdleServices
    /\ InitSamplerIdle
    /\ IdleCorrelator
    /\ IdleService
    /\ apc = "ready"
    /\ audio_segments \in AudioSegmentInputs
    /\ stt_results = << >>
    /\ transcription_segments = << >>

NextAudio == TranscribeStart \/ TranscribeStep \/ TranscribeReturn

SpecAudio == InitAudio /\ [][NextAudio]_vars

(***************************************************************************)
(* The hallucination filter called on its own, between loads of the model. *)
(***************************************************************************)
FilterTexts ==
    { << "stop", "resisting", "stop", "resisting", "stop", "resisting", "stop" >>,
      << "Subscribe", "to", "my", "channel" >>,
      << "put", "your", "hands", "up" >>,
      << "so", "well" >>,
      << "[music]" >> }

FilterConfidences == { 30, 60 }

FilterDurations == { Seconds(1), Seconds(3) }

\* a call of _load_whisper_model
LoadModel ==
    /\ apc = "filter"
    /\ \E size \in ModelSizes \cup { "None" } : LoadWhisperModel(size)
    /\ UNCHANGED << apc, confidence_threshold, audio_segments, stt_results,
                    transcription_segments, earlier_call, later_call >>
    /\ UNCHANGED << samplerVars, correlatorVars, runVars >>
    /\ UNCHANGED serviceVars

\* a call of detect_hallucinations; the call before it is remembered or not
DetectCall ==
    /\ apc = "filter"
    /\ \E text \in FilterTexts, confidence \in FilterConfidences,
          segment_duration \in FilterDurations :
          later_call' = [ made |-> TRUE, text |-> text, confidence |-> confidence,
                          segment_duration |-> segment_duration, service |-> Service,
                          result |-> DetectHallucinations(Service, text, confidence,
                                                          segment_duration) ]
    /\ earlier_call' \in { earlier_call, later_call }
    /\ UNCHANGED << apc, model_size, whisper_model, confidence_threshold,
                    audio_segments, stt_results, transcription_segments >>
    /\ UNCHANGED << samplerVars, correlatorVars, runVars >>
    /\ UNCHANGED serviceVars

InitFilter ==
    /\ IdleServices
    /\ InitSamplerIdle
    /\ IdleCorrelator
    /\ IdleService
    /\ apc = "filter"
    /\ audio_segments = << >>
    /\ stt_results = << >>
    /\ transcription_segments = << >>

NextFilter == LoadModel \/ DetectCall

SpecFilter == InitFilter /\ [][NextFilter]_vars

(***************************************************************************)
(* Claims about the transcription engine and the hallucination filter      *)
(* (specifications SpecAudio and SpecFilter).                              *)
(***************************************************************************)
\* a trigger of C8 holds for a finding: a spurious-content pattern, a
\* confidence below 0.4, a word that is more than 30% of a text of four words
\* or more, more than 2 x 2.5 or more than 4 words a second, a language
\* other than the forced one
TriggerHolds(finding) ==
    LET words == Split(finding.text)
        seconds3 == finding.end_time - finding.start_time
        share(w) == Cardinality({ i \in DOMAIN words : words[i] = w })
    IN  \/ \E k \in DOMAIN HallucinationPatterns :
              SearchPattern(HallucinationPatterns[k], Lower(words))
        \/ finding.confidence < 40
        \/ /\ Len(words) >= 4
           /\ \E i \in DOMAIN words : 10 * share(words[i]) > 3 * Len(words)
        \/ 3 * Len(words) > 5 * seconds3
        \/ 3 * Len(words) > 4 * seconds3
        \/ finding.language # "en"

\* C8: a transcription finding for which at least one trigger holds is
\* flagged as hallucination.
C8_FlaggedWheneverTriggerHolds ==
    \A k \in DOMAIN transcription_segments :
        TriggerHolds(transcription_segments[k])
            => transcription_segments[k].is_hallucination

\* 'stop resisting stop resisting stop resisting stop' at confidence 0.6 and
\* duration 3 s is flagged, by the repetition rule alone
C8_Witness ==
    \E k \in DOMAIN transcription_segments :
        LET finding == transcription_segments[k]
        IN  /\ finding.text = << "stop", "resisting", "stop", "resisting",
                                 "stop", "resisting", "stop" >>
            /\ finding.confidence = 60
            /\ finding.end_time - finding.start_time = Seconds(3)
            /\ finding.is_hallucination
            /\ finding.hallucination_indicators = << << "Excessive word repetition" >> >>

C10_OneFindingPerSegment ==
    apc = "returned" =>
        /\ Len(transcription_segments) = Len(audio_segments)
        /\ \A i \in DOMAIN transcription_segments :
              /\ transcription_segments[i].start_time = audio_segments[i].start_time
              /\ transcription_segments[i].end_time = audio_segments[i].end_time
              /\ stt_results[i].raised => transcription_segments[i].confidence = 0

(***************************************************************************)
(* Frame analyzer.  The content of a provider response is held as the set  *)
(* of phrases it is made of and its length in characters; a substring test *)
(* of the code is a test on the phrases.  Confidences are in hundredths.   *)
(***************************************************************************)
MaxRunFrames == 10   \* longest video of an analysis run, in frames

\* self.provider_configs, in priority order
ProviderConfigs ==
    << [name |-> "hyperbolic", model |-> "Qwen/Qwen2.5-VL-7B-Instruct"],
       [name |-> "nebius", model |-> "Qwen/Qwen2-VL-72B-Instruct"] >>

ResponseContent(phrases, length) == [phrases |-> phrases, length |-> length]

\* str.lower() on the phrases of the model
LowerPhrase(p) ==
    CASE p = "Error" -> "error"
      [] p = "Analysis failed" -> "analysis failed"
      [] p = "All inference providers unavailable" -> "all inference providers unavailable"
      [] OTHER -> p

\* the keywords of the code that a phrase of the model holds as a substring
Substrings(p) ==
    CASE p = "excessive force" -> { "excessive force", "excessive" }
      [] p = "concerning" -> { "concerning", "concern" }
      [] p = "potential violation" -> { "potential violation", "violation" }
      [] p = "analysis failed" -> { "failed" }
      [] p = "officer speaks calmly" -> { }
      [] p = "all inference providers unavailable" -> { }
      [] OTHER -> { p }

\* keyword in content
InContent(keyword, content) ==
    \E p \in content.phrases : keyword \in Substrings(p)

\* keyword in content.lower()
InLower(keyword, content) ==
    \E p \in content.phrases : keyword \in Substrings(LowerPhrase(p))

\* what a provider can answer: the call raises (timeout, HTTP error), the
\* response is empty, or it carries a content
ProviderContents ==
    { ResponseContent({ "officer speaks calmly" }, 120),
      ResponseContent({ "excessive force", "concerning" }, 200),
      ResponseContent({ "Error", "404" }, 60),
      ResponseContent({ "officer speaks calmly" }, 21) }

ProviderResponses ==
    { [kind |-> "raise"], [kind |-> "empty"] }
      \cup { [kind |-> "content", content |-> c] : c \in ProviderContents }

\* the length test of _analyze_frame_with_provider reversed: a longer
\* content is the one taken for an error
ErrorIndicatedWhenLong(content) ==
    \/ InContent("404", content)
    \/ InLower("failed", content)
    \/ InLower("error", content)
    \/ content.length >= 50

\* the check for error indicators of _analyze_frame_with_provider
ErrorIndicated(content) ==
    \/ InContent("404", content)
    \/ InLower("failed", content)
    \/ InLower("error", content)
    \/ content.length < 50

\* _analyze_frame_with_provider with a confidence of 1.0 for a successful
\* response
AnalyzeFrameWithProviderCertain(provider_config, response) ==
    IF response.kind # "content" THEN << >>
    ELSE IF ErrorIndicated(response.content) THEN << >>
    ELSE << [ description |-> response.content,
              confidence  |-> 100,
              provider    |-> provider_config.name,
              model       |-> provider_config.model ] >>

\* _analyze_frame_with_provider: None is the empty sequence
AnalyzeFrameWithProvider(provider_config, response) ==
    IF response.kind # "content" THEN << >>
    ELSE IF ErrorIndicated(response.content) THEN << >>
    ELSE << [ description |-> response.content,
              confidence  |-> 90,
              provider    |-> provider_config.name,
              model       |-> provider_config.model ] >>

\* analyze_frame once every provider has failed
AllProvidersFailed ==
    [ description |-> ResponseContent({ "Analysis failed", "All inference providers unavailable" }, 52),
      confidence  |-> 0,
      provider    |-> "none",
      model       |-> "none",
      error       |-> "All providers failed" ]

\* violation_patterns of _extract_enhanced_violations, in dictionary order
ViolationPatterns ==
    << [type |-> "excessive force",
        keywords |-> { "excessive force", "unnecessary force", "brutal", "excessive" }],
       [type |-> "improper procedure",
        keywords |-> { "improper procedure", "protocol violation", "incorrect" }],
       [type |-> "rights violation",
        keywords |-> { "rights violation", "constitutional", "miranda" }],
       [type |-> "weapon misuse",
        keywords |-> { "weapon misuse", "improper weapon", "unnecessary weapon" }],
       [type |-> "verbal abuse",
        keywords |-> { "verbal abuse", "inappropriate language", "threatening" }],
       [type |-> "search seizure",
        keywords |-> { "illegal search", "improper search", "seizure" }],
       [type |-> "discrimination",
        keywords |-> { "discrimination", "bias", "profiling" }] >>

\* _extract_enhanced_violations
ExtractEnhancedViolations(analysis_text) ==
    LET RECURSIVE Scan(_)
        Scan(patterns) ==
            IF patterns = << >> THEN << >>
            ELSE IF \E k \in Head(patterns).keywords : InLower(k, analysis_text)
            THEN << Head(patterns).type >> \o Scan(Tail(patterns))
            ELSE Scan(Tail(patterns))
    IN  Scan(ViolationPatterns)

HighSeverityIndicators ==
    { "excessive force", "weapon drawn", "violence", "injury",
      "constitutional violation", "serious concern", "immediate danger" }

MediumSeverityIndicators ==
    { "inappropriate", "concerning", "unprofessional", "escalation",
      "potential violation", "questionable" }

\* _assess_enhanced_severity
AssessEnhancedSeverity(analysis_text) ==
    IF \E k \in HighSeverityIndicators : InLower(k, analysis_text) THEN "high"
    ELSE IF \E k \in MediumSeverityIndicators : InLower(k, analysis_text) THEN "medium"
    ELSE "low"

\* result.get(key, default)
Get(result, key, default) == IF key \in DOMAIN result THEN result[key] ELSE default

\* the analysis dictionary that step 6 builds from the result of analyze_frame
FrameAnalysis(frame_data, result) ==
    LET description == Get(result, "description", ResponseContent({ }, 0))
    IN  [ frame_number         |-> frame_data.frame_number,
          timestamp            |-> frame_data.timestamp,
          analysis_text        |-> description,
          confidence           |-> Get(result, "confidence", 0),
          concerns_detected    |-> \/ InLower("concern", description)
                                   \/ InLower("violation", description),
          potential_violations |-> ExtractEnhancedViolations(description),
          severity_level       |-> AssessEnhancedSeverity(description),
          provider             |-> Get(result, "provider", "unknown"),
          model                |-> Get(result, "model", "unknown"),
          cached               |-> FALSE ]

(***************************************************************************)
(* Summary of the run.                                                     *)
(***************************************************************************)
RECURSIVE CountSeverity(_, _)
CountSeverity(frames, severity) ==
    IF frames = << >> THEN 0
    ELSE (IF Head(frames).severity_level = severity THEN 1 ELSE 0)
           + CountSeverity(Tail(frames), severity)

\* list(set(all_violations))
UniqueViolations(frames) ==
    UNION { SeqRange(frames[i].potential_violations) : i \in DOMAIN frames }

\* the percentage rule of _generate_comprehensive_summary_with_audio:
\* high_percentage > 0.1, high_percentage > 0 or medium_percentage > 0.3,
\* medium_percentage > 0.1
OverallSeverity(frames) ==
    LET total == Len(frames)
        high == CountSeverity(frames, "high")
        medium == CountSeverity(frames, "medium")
    IN  IF 10 * high > total THEN "high"
        ELSE IF high > 0 \/ 10 * medium > 3 * total THEN "medium"
        ELSE IF 10 * medium > total THEN "medium"
        ELSE "low"

CriticalViolations == { "excessive force", "rights violation", "verbal abuse" }

\* overall_severity after the override for critical violations
SeverityAssessment(frames) ==
    IF UniqueViolations(frames) \cap CriticalViolations # { }
       /\ OverallSeverity(frames) = "low"
    THEN "medium"
    ELSE OverallSeverity(frames)

\* _generate_comprehensive_summary_with_audio
GenerateComprehensiveSummary(frames, info, audio) ==
    IF frames = << >> THEN [k \in { } |-> TRUE]      \* the empty dictionary
    ELSE [ total_frames_analyzed   |-> Len(frames),
           total_concerning_frames |->
               Cardinality({ i \in DOMAIN frames : frames[i].concerns_detected }),
           concerns_found          |-> \E i \in DOMAIN frames : frames[i].concerns_detected,
           violations_detected     |-> UniqueViolations(frames),
           severity_assessment     |-> SeverityAssessment(frames),
           useful_duration         |-> info.useful_duration,
           blackout_duration       |-> info.blackout_duration,
           audio_enabled           |-> audio # "None" ]

(***************************************************************************)
(* The analysis run, analyze_video_comprehensive_with_audio, step by step. *)
(***************************************************************************)
\* cv2.VideoCapture(video_path) of _analyze_video_structure: a file that
\* does not open raises ValueError, which the run logs and raises again
OpenVideo ==
    /\ pc = "open"
    /\ \E opened \in BOOLEAN :
         IF opened
         THEN pc' = "scan" /\ UNCHANGED raised
         ELSE pc' = "raised" /\ raised' = "ValueError"
    /\ UNCHANGED << video_fps, total_frames, readable, frame_count, in_blackout,
                    blackout_start, blackout_segments, video_info, useful_segments,
                    strategy, max_frames, adjusted_max_frames, frames_data, footage >>
    /\ UNCHANGED << include_audio, audio_result, frame_i, provider_calls,
                    current_provider, analyses, results >>
    /\ UNCHANGED << correlatorVars, audioVars >>
    /\ UNCHANGED serviceVars

\* step 3: analyze_video_audio returns a result, or raises (for one,
\* extract_audio_from_video finds no audio track) and the run goes on with
\* audio_result = None
AnalyzeAudio ==
    /\ pc = "structure"
    /\ include_audio
    /\ \E outcome \in { "result", "raise" } :
         audio_result' = IF outcome = "result" THEN "AudioAnalysisResult" ELSE "None"
    /\ pc' = "audio"
    /\ UNCHANGED << video_fps, total_frames, readable, frame_count, in_blackout,
                    blackout_start, blackout_segments, video_info, useful_segments,
                    strategy, max_frames, adjusted_max_frames, frames_data, footage >>
    /\ UNCHANGED << include_audio, frame_i, provider_calls, current_provider,
                    analyses, results, raised >>
    /\ UNCHANGED << correlatorVars, audioVars >>
    /\ UNCHANGED serviceVars

\* a loop of step 6 that appends nothing for a frame whose result carries
\* an error
AppendAnalysisUnlessError(list, frame_data, result) ==
    IF "error" \in DOMAIN result THEN list
    ELSE Append(list, FrameAnalysis(frame_data, result))

\* frame_analyses.append(analysis) of step 6
AppendAnalysis(list, frame_data, result) ==
    Append(list, FrameAnalysis(frame_data, result))

\* the calls analyze_frame has made for the frame the loop of step 6 is at
CurrentCalls ==
    IF provider_calls # << >> /\ provider_calls[1].frame = frame_i + 1
    THEN provider_calls ELSE << >>

\* one turn of the loop of analyze_frame over provider_configs: the call of
\* _analyze_frame_with_provider, and what the loop and step 6 do with its
\* result
ProviderCall(response) ==
    LET k == Len(CurrentCalls) + 1
        provider_config == ProviderConfigs[k]
        result == AnalyzeFrameWithProvider(provider_config, response)
        frame_data == frames_data[frame_i + 1]
    IN  /\ provider_calls' =
             Append(CurrentCalls, [ frame    |-> frame_i + 1,
                                    provider |-> provider_config.name,
                                    response |-> response,
                                    failed   |-> result = << >> ])
        /\ IF result # << >>
           THEN /\ current_provider' = provider_config.name
                /\ analyses' = AppendAnalysis(analyses, frame_data, result[1])
                /\ frame_i' = frame_i + 1
           ELSE IF k = Len(ProviderConfigs)
           THEN /\ analyses' = AppendAnalysis(analyses, frame_data, AllProvidersFailed)
                /\ frame_i' = frame_i + 1
                /\ UNCHANGED current_provider
           ELSE UNCHANGED << current_provider, analyses, frame_i >>
        /\ UNCHANGED << include_audio, audio_result, results, raised >>
        /\ UNCHANGED << samplerVars, correlatorVars, audioVars >>
        /\ UNCHANGED serviceVars

\* a provider answers with a usable content: analyze_frame returns it
ProviderSucceeds ==
    /\ pc = "sampled"
    /\ frame_i < Len(frames_data)
    /\ \E response \in ProviderResponses :
         /\ AnalyzeFrameWithProvider(ProviderConfigs[Len(CurrentCalls) + 1], response) # << >>
         /\ ProviderCall(response)

\* a provider fails and another one is left: continue
ProviderFails ==
    /\ pc = "sampled"
    /\ frame_i < Len(frames_data)
    /\ Len(CurrentCalls) + 1 < Len(ProviderConfigs)
    /\ \E response \in ProviderResponses :
         /\ AnalyzeFrameWithProvider(ProviderConfigs[Len(CurrentCalls) + 1], response) = << >>
         /\ ProviderCall(response)

\* the last provider fails: analyze_frame returns its error result
AllProvidersFail ==
    /\ pc = "sampled"
    /\ frame_i < Len(frames_data)
    /\ Len(CurrentCalls) + 1 = Len(ProviderConfigs)
    /\ \E response \in ProviderResponses :
         /\ AnalyzeFrameWithProvider(ProviderConfigs[Len(CurrentCalls) + 1], response) = << >>
         /\ ProviderCall(response)

\* steps 7 to 10 and the return of the results dictionary
Return ==
    /\ pc = "sampled"
    /\ frame_i = Len(frames_data)
    /\ results' =
         [ returned              |-> TRUE,
           video_info            |-> video_info,
           audio_analysis        |-> audio_result,
           extraction_strategy   |-> strategy,
           total_frames_analyzed |-> Len(analyses),
           frame_analyses        |-> analyses,
           violations            |-> DetectViolationsWithAudioContext(analyses, << >>),
           summary               |-> GenerateComprehensiveSummary(analyses, video_info,
                                                                  audio_result),
           audio_enabled         |-> include_audio ]
    /\ pc' = "returned"
    /\ UNCHANGED << video_fps, total_frames, readable, frame_count, in_blackout,
                    blackout_start, blackout_segments, video_info, useful_segments,
                    strategy, max_frames, adjusted_max_frames, frames_data, footage >>
    /\ UNCHANGED << include_audio, audio_result, frame_i, provider_calls,
                    current_provider, analyses, raised >>
    /\ UNCHANGED << correlatorVars, audioVars >>
    /\ UNCHANGED serviceVars

InitRun ==
    /\ IdleServices
    /\ IdleCorrelator
    /\ IdleAudio
    /\ pc = "open"
    /\ video_fps = Fps(1, 1)
    /\ total_frames \in (MaxRunFrames - 1)..MaxRunFrames
    /\ readable = total_frames
    /\ frame_count = 0
    /\ in_blackout = FALSE
    /\ blackout_start = -1
    /\ blackout_segments = << >>
    /\ video_info = NoVideoInfo
    /\ useful_segments = << >>
    /\ strategy = "none"
    /\ max_frames = 0
    /\ adjusted_max_frames = 0
    /\ frames_data = << >>
    /\ footage = NoFootage
    /\ include_audio \in BOOLEAN
    /\ audio_result = "None"
    /\ frame_i = 0
    /\ provider_calls = << >>
    /\ current_provider = "None"
    /\ analyses = << >>
    /\ results = NoResults
    /\ raised = "None"

NextRun ==
    \/ OpenVideo \/ ScanFrame \/ ScanEnd \/ ScanBreak \/ AnalyzeAudio \/ ExtractFrames
    \/ ProviderSucceeds \/ ProviderFails \/ AllProvidersFail \/ Return

SpecRun == InitRun /\ [][NextRun]_vars

(***************************************************************************)
(* Claims about the frame analyzer and the analysis run (specification     *)
(* SpecRun).                                                               *)
(***************************************************************************)
\* the latest frame the calls of provider_calls were made for is finished
FrameDone(calls, i) ==
    /\ calls # << >>
    /\ calls[1].frame = i

\* a response that is not an error and is long enough
Usable(response) ==
    /\ response.kind = "content"
    /\ response.content.length >= 50
    /\ \A p \in response.content.phrases :
           p \notin { "404", "error", "Error", "failed", "Analysis failed" }

\* C11: for one frame the providers are called in their priority order, each
\* at most once and only after every earlier one has failed, and the result
\* of the frame comes from the first provider whose response is not an error
\* and is long enough.
C11_ProvidersTriedInOrder ==
    /\ Len(provider_calls) <= Len(ProviderConfigs)
    /\ \A j \in DOMAIN provider_calls :
           /\ provider_calls[j].provider = ProviderConfigs[j].name
           /\ provider_calls[j].frame = provider_calls[1].frame
           /\ j < Len(provider_calls) => ~Usable(provider_calls[j].response)
    /\ FrameDone(provider_calls, frame_i) =>
           LET last == Last(provider_calls)
           IN  IF Usable(last.response)
               THEN /\ analyses[frame_i].provider = last.provider
                    /\ analyses[frame_i].analysis_text = last.response.content
               ELSE /\ Len(provider_calls) = Len(ProviderConfigs)
                    /\ analyses[frame_i].provider = "none"

C11_Witness ==
    /\ FrameDone(provider_calls, frame_i)
    /\ Len(provider_calls) = 2
    /\ ~Usable(provider_calls[1].response)
    /\ Usable(provider_calls[2].response)
    /\ analyses[frame_i].provider = "nebius"

\* C12: when every provider fails for a frame, the finding recorded for the
\* frame has confidence 0.0, severity 'unknown' and an error marker, and no
\* exception is raised.
C12_AllFailedFindingIsDegraded ==
    (/\ FrameDone(provider_calls, frame_i)
     /\ Len(provider_calls) = Len(ProviderConfigs)
     /\ \A j \in DOMAIN provider_calls : provider_calls[j].failed)
    => /\ analyses[frame_i].confidence = 0
       /\ analyses[frame_i].severity_level = "unknown"
       /\ "error" \in DOMAIN analyses[frame_i]
       /\ raised = "None"

SeverityRank(severity) ==
    CASE severity = "low" -> 1
      [] severity = "medium" -> 2
      [] severity = "high" -> 3
      [] severity = "critical" -> 4

\* the violation's frame with its confidence and severity replaced
Raised(confidence, severity) ==
    [confidence |-> confidence, severity_level |-> severity]

\* C15: with the audio context held fixed, a frame of higher or equal
\* confidence and higher or equal severity rank never gets a lower priority
\* score than the one the violation has.
C15_PriorityMonotone ==
    cpc = "detected" =>
        \A k \in DOMAIN violations :
            \A confidence \in { 60, 80, 90, 100 },
               severity \in { "low", "medium", "high", "critical" } :
                /\ (/\ confidence >= violations[k].confidence
                    /\ SeverityRank(severity) >= SeverityRank(violations[k].severity))
                   => CalculateViolationPriority(Raised(confidence, severity),
                                                 violations[k].audio_context)
                        >= violations[k].priority_score
                /\ (/\ confidence <= violations[k].confidence
                    /\ SeverityRank(severity) <= SeverityRank(violations[k].severity))
                   => CalculateViolationPriority(Raised(confidence, severity),
                                                 violations[k].audio_context)
                        <= violations[k].priority_score

\* a violation below the cap with an audio context, which a higher severity
\* scores strictly higher
C15_Witness ==
    /\ cpc = "detected"
    /\ \E k \in DOMAIN violations :
          /\ violations[k].audio_context # << >>
          /\ violations[k].severity = "medium"
          /\ violations[k].priority_score < 100000
          /\ CalculateViolationPriority(Raised(violations[k].confidence, "high"),
                                        violations[k].audio_context)
               > violations[k].priority_score

\* C16: the priority score of every violation lies within [0, 1].
C16_PriorityWithinUnitInterval ==
    cpc = "detected" =>
        \A k \in DOMAIN violations :
            /\ violations[k].priority_score >= 0
            /\ violations[k].priority_score <= 100000

\* a violation whose product of confidence, multiplier and bonuses exceeds
\* 1.0 and is capped, next to one that is below the cap
C16_Witness ==
    /\ cpc = "detected"
    /\ \E k \in DOMAIN violations :
          /\ violations[k].audio_context # << >>
          /\ violations[k].priority_score = 100000
          /\ violations[k].confidence * SeverityMultiplier(violations[k].severity) * 12 * 11
               > 100000
    /\ \E k \in DOMAIN violations : violations[k].priority_score < 100000

\* the transcription segments that are not flagged and start within 30 s of
\* a timestamp
Eligible(segments, timestamp) ==
    { i \in DOMAIN segments :
        /\ ~segments[i].is_hallucination
        /\ Abs(segments[i].start_time - timestamp) <= 30 * WordsPerSecond }

\* C17: the audio context of a video violation is an unflagged transcription
\* segment within 30 s of the violation, and no other such segment is
\* strictly nearer; a violation with no such segment has no audio context.
C17_ContextIsNearestWithinThirtySeconds ==
    cpc = "detected" =>
        \A k \in DOMAIN violations :
            LET v == violations[k]
                eligible == Eligible(transcription_segments, v.timestamp)
            IN  IF eligible = { } THEN v.audio_context = << >>
                ELSE /\ v.audio_context # << >>
                     /\ \E i \in eligible :
                           LET seg == transcription_segments[i]
                               closest == v.audio_context[1].closest_segment
                           IN  /\ closest.start_time = seg.start_time
                               /\ closest.text = seg.text
                               /\ closest.confidence = seg.confidence
                               /\ closest.time_offset = seg.start_time - v.timestamp
                               /\ \A j \in eligible :
                                      Abs(transcription_segments[j].start_time - v.timestamp)
                                        >= Abs(seg.start_time - v.timestamp)

\* one violation has two segments within 30 s and takes the later, nearer
\* one; another has unflagged segments, none of them within 30 s
C17_Witness ==
    /\ cpc = "detected"
    /\ \E k \in DOMAIN violations :
          /\ Cardinality(Eligible(transcription_segments, violations[k].timestamp)) = 2
          /\ violations[k].audio_context # << >>
          /\ violations[k].audio_context[1].closest_segment.start_time
               = transcription_segments[2].start_time
    /\ \E k \in DOMAIN violations :
          /\ Eligible(transcription_segments, violations[k].timestamp) = { }
          /\ \E i \in DOMAIN transcription_segments :
                ~transcription_segments[i].is_hallucination
          /\ violations[k].audio_context = << >>

(***************************************************************************)
(* The summary of a run whose frames have all been analysed.  The run is   *)
(* taken up after step 6, over a video with one sampled frame for every 30 *)
(* seconds; the severity rule counts frames, so the findings are given by  *)
(* how many frames of each kind there are.                                 *)
(***************************************************************************)
MaxSummaryFrames == 11   \* most frames of a summarized run

\* provider responses of severity high, medium and low, and one of severity
\* low that names a critical violation
SummaryContents ==
    [ high   |-> ResponseContent({ "weapon drawn" }, 120),
      medium |-> ResponseContent({ "unprofessional" }, 120),
      low    |-> ResponseContent({ "officer speaks calmly" }, 120),
      abuse  |-> ResponseContent({ "verbal abuse" }, 120) ]

\* the frames uniform sampling returns for the video
SummaryFramesData(n) ==
    [i \in 1..n |-> ProcessFrame(30 * (i - 1), Ts(30 * (i - 1), 1))]

\* the findings of step 6 for h, m, l and a frames of the four kinds, each
\* answered by the first provider
SummaryAnalyses(h, m, l, a) ==
    [i \in 1..(h + m + l + a) |->
        LET kind == IF i <= h THEN "high"
                    ELSE IF i <= h + m THEN "medium"
                    ELSE IF i <= h + m + l THEN "low" ELSE "abuse"
            response == [kind |-> "content", content |-> SummaryContents[kind]]
        IN  FrameAnalysis(SummaryFramesData(h + m + l + a)[i],
                          AnalyzeFrameWithProvider(ProviderConfigs[1], response)[1])]

InitSummary ==
    /\ IdleServices
    /\ IdleCorrelator
    /\ IdleAudio
    /\ pc = "sampled"
    /\ video_fps = Fps(1, 1)
    /\ total_frames = 30 * MaxSummaryFrames
    /\ readable = total_frames
    /\ frame_count = total_frames
    /\ in_blackout = FALSE
    /\ blackout_start = -1
    /\ blackout_segments = << >>
    /\ video_info = AnalyzeVideoStructure(video_fps, total_frames, << >>)
    /\ useful_segments = CreateUsefulSegments(video_info)
    /\ strategy = "uniform"
    /\ max_frames = MaxSummaryFrames
    /\ \E h, m, l \in 0..MaxSummaryFrames, a \in 0..1 :
          /\ h + m + l + a >= 1
          /\ h + m + l + a <= MaxSummaryFrames
          /\ adjusted_max_frames = h + m + l + a
          /\ frames_data = SummaryFramesData(h + m + l + a)
          /\ footage = Content("still", "block")
          /\ frame_i = h + m + l + a
          /\ analyses = SummaryAnalyses(h, m, l, a)
          /\ provider_calls =
               << [ frame    |-> frame_i,
                    provider |-> ProviderConfigs[1].name,
                    response |-> [kind |-> "content",
                                  content |-> analyses[frame_i].analysis_text],
                    failed   |-> FALSE ] >>
    /\ include_audio = FALSE
    /\ audio_result = "None"
    /\ current_provider = ProviderConfigs[1].name
    /\ results = NoResults
    /\ raised = "None"

NextSummary == Return

SpecSummary == InitSummary /\ [][NextSummary]_vars

(***************************************************************************)
(* Claim about the summary (specification SpecSummary).                    *)
(***************************************************************************)
\* the frames of a severity
FramesOf(frames, severity) ==
    { i \in DOMAIN frames : frames[i].severity_level = severity }

\* C18: the overall severity of the summary is 'high' if more than 10% of
\* the analysed frames are high-severity; otherwise 'medium' if any frame is
\* high-severity or more than 30% are medium-severity; otherwise 'low'; and
\* a 'low' result is raised to 'medium' when a critical violation type is
\* present.
C18_OverallSeverityRule ==
    (results.returned /\ results.frame_analyses # << >>) =>
        LET frames == results.frame_analyses
            n == Len(frames)
            high == Cardinality(FramesOf(frames, "high"))
            medium == Cardinality(FramesOf(frames, "medium"))
            critical ==
                \E i \in DOMAIN frames :
                    \E t \in { "excessive force", "rights violation", "verbal abuse" } :
                        t \in SeqRange(frames[i].potential_violations)
            by_frames == IF 10 * high > n THEN "high"
                         ELSE IF high > 0 \/ 10 * medium > 3 * n THEN "medium"
                         ELSE "low"
        IN  results.summary.severity_assessment =
                (IF by_frames = "low" /\ critical THEN "medium" ELSE by_frames)

(***************************************************************************)
(* Claims about the degenerate and the failing run (specification SpecRun).*)
(***************************************************************************)
\* the keys of a dictionary that would say that the video had no
\* analyzable content
NoContentKeys(dict) ==
    DOMAIN dict \cap { "no_content", "no_analyzable_content", "status", "error", "outcome" }

\* C19: when the video has no usable segment, every strategy returns an
\* empty frame list, the run raises nothing, and the result it returns marks
\* the outcome 'no analyzable content'.
C19_NoUsableSegmentIsNoContent ==
    (pc \in { "sampled", "returned" } /\ useful_segments = << >>) =>
        /\ frames_data = << >>
        /\ raised = "None"
        /\ pc = "returned" =>
               \/ NoContentKeys(results) # { }
               \/ NoContentKeys(results.summary) # { }

\* the sampler's part of C19
C19_NoUsableSegmentNoFrames ==
    (pc \in { "sampled", "returned" } /\ useful_segments = << >>) =>
        /\ frames_data = << >>
        /\ raised = "None"

\* C20: structural failures are fatal: when the video cannot be opened, or
\* audio was requested and its analysis fails because the audio cannot be
\* extracted, the run stops and propagates the error, and returns no result.
C20_StructuralFailuresFatal ==
    /\ raised # "None" => (pc = "raised" /\ ~results.returned)
    /\ (include_audio /\ pc \in { "audio", "sampled", "returned" }) =>
           audio_result # "None"

\* the part of C20 about a video that cannot be opened
C20_OpenFailureFatal ==
    /\ raised # "None" => (pc = "raised" /\ ~results.returned)
    /\ pc = "raised" => raised = "ValueError"

(***************************************************************************)
(* Claims about the sampling strategies (specification SpecSampler).       *)
(***************************************************************************)
\* C21: with the uniform strategy the sampled timestamps are evenly spaced
\* across the union of the usable segments, the segments after a blackout
\* sampled at the same spacing as those before it.  Samples spaced
\* total_useful_duration / budget apart over the union put a sample in every
\* usable segment that is at least one spacing long, so on footage that is
\* dark only inside the detected blackouts and is readable to its end, every
\* such segment holds a returned frame.
C21_UniformCoversUsableUnion ==
    ( /\ pc = "sampled"
      /\ strategy = "uniform"
      /\ footage.dark = "block"
      /\ readable = total_frames ) =>
        \A u \in DOMAIN useful_segments :
            useful_segments[u].duration * adjusted_max_frames
                    >= SumDuration(useful_segments)
                => \E i \in DOMAIN frames_data :
                       TsInside(frames_data[i].timestamp, useful_segments[u])

\* the frames returned from inside the u-th usable segment
FramesInside(u) ==
    { i \in DOMAIN frames_data :
        TsInside(frames_data[i].timestamp, useful_segments[u]) }

\* the minimum-frame floor the claim gives a segment of d frame periods
MinimumFloor(fps, d) ==
    IF MoreThanSeconds(fps, d, 30) THEN 3
    ELSE IF MoreThanSeconds(fps, d, 10) THEN 2 ELSE 1

\* C22: in the intelligent strategy a usable segment shorter than 3 s is
\* allocated no frames, and every other usable segment is allocated a quota of
\* at least floor(N * segment duration / total usable duration) and at least
\* the minimum floor, so that no segment of 3 s or more is allocated zero frames.
C22_QuotaAtLeastShareAndFloor ==
    (pc = "sampled" /\ strategy = "intelligent") =>
        \A u \in DOMAIN useful_segments :
            LET d == useful_segments[u].duration
                quota == SegmentQuota(video_fps, useful_segments, u, adjusted_max_frames)
            IN  IF LessThanSeconds(video_fps, d, 3)
                THEN FramesInside(u) = {}
                ELSE /\ quota >= (adjusted_max_frames * d)
                                    \div SumDuration(useful_segments)
                     /\ quota >= MinimumFloor(video_fps, d)
                     /\ quota >= 1

\* C22 without the proportional share: short segments get no frames, the others
\* at least the minimum floor
C22_FloorAndShortSegments ==
    (pc = "sampled" /\ strategy = "intelligent") =>
        \A u \in DOMAIN useful_segments :
            LET d == useful_segments[u].duration
                quota == SegmentQuota(video_fps, useful_segments, u, adjusted_max_frames)
            IN  IF LessThanSeconds(video_fps, d, 3)
                THEN FramesInside(u) = {}
                ELSE quota >= MinimumFloor(video_fps, d)

\* the frames the intelligent strategy collected over all segments, before
\* the cut to the budget
Collected ==
    IntelligentCollected(footage, readable, video_fps, useful_segments,
                         adjusted_max_frames)

\* the frame numbers of a list of frames that lie inside the u-th usable segment
NumbersInside(frames, u) ==
    { frames[i].frame_number : i \in { j \in DOMAIN frames :
          TsInside(frames[j].timestamp, useful_segments[u]) } }

\* C23: when the collected frames exceed the budget N, the intelligent
\* strategy never drops all frames of one segment while lower-scoring frames
\* of another segment are kept.
C23_NoSegmentEmptiedForLowerScores ==
    ( /\ pc = "sampled"
      /\ strategy = "intelligent"
      /\ Len(Collected) > adjusted_max_frames ) =>
        \A u, v \in DOMAIN useful_segments :
            ( /\ NumbersInside(Collected, u) # {}
              /\ NumbersInside(frames_data, u) = {} ) =>
                \A f \in NumbersInside(Collected, u), g \in NumbersInside(frames_data, v) :
                    MotionOf(footage, g) >= MotionOf(footage, f)

\* C23, first part: the frames kept by the cut are the N of highest motion
\* score, no dropped frame scoring above a kept one
C23_KeepsHighestMotion ==
    ( /\ pc = "sampled"
      /\ strategy = "intelligent"
      /\ Len(Collected) > adjusted_max_frames ) =>
        /\ Len(frames_data) = adjusted_max_frames
        /\ \A i \in DOMAIN Collected, j \in DOMAIN frames_data :
               (\A k \in DOMAIN frames_data :
                    frames_data[k].frame_number # Collected[i].frame_number)
                   => MotionOf(footage, frames_data[j].frame_number)
                          >= MotionOf(footage, Collected[i].frame_number)

\* C24: for every strategy the frames the sampler returns are ordered by
\* timestamp, the timestamps non-decreasing along the list.
C24_FramesOrderedByTimestamp ==
    pc = "sampled" =>
        \A i, j \in DOMAIN frames_data :
            i < j => TsLeq(frames_data[i].timestamp, frames_data[j].timestamp)

\* a segment's frames were chosen by falling motion score, latest first, and
\* were returned in time order
C24_Witness ==
    /\ pc = "sampled"
    /\ strategy \in { "intelligent", "motion_based" }
    /\ footage.motion = "rising"
    /\ Len(frames_data) >= 2
    /\ TsLess(frames_data[1].timestamp, frames_data[2].timestamp)

(***************************************************************************)
(* Audio segmenter: segment_audio_by_activity and the fallback of step 4   *)
(* of analyze_video_audio.  Audio is sampled at 16 kHz, frames of 25 ms    *)
(* every 10 ms; times are held in ticks of 5 ms.  The speech_frames array  *)
(* of the voice activity detection is held by its runs: the value of the   *)
(* first frame and the lengths of the runs of equal values.                *)
(***************************************************************************)
MaxRuns == 5         \* most runs of equal values in speech_frames

\* int(min_gap / 0.01): 0.3 / 0.01 is 29.999999999999996 in doubles
MinGapFrames == 29
\* min_segment_duration=0.5 of step 3, in ticks
MinSegmentDuration == 100
\* segment_duration=30.0 of step 4, in ticks
FixedSegmentDuration == 6000
\* sr * 0.5 samples of _create_fixed_segments, in ticks
MinFixedDuration == 100

\* librosa.frames_to_time(i, sr=sr, hop_length=hop_length)
FrameTime(i) == 2 * i

\* len(speech_frames)
NumFrames(runs) == Sum(runs)

\* len(y) / sr for the shortest audio that has n frames
AudioDuration(n) == FrameTime(n - 1) + 5

\* speech_frames[i]
RECURSIVE SpeechFrame(_, _, _)
SpeechFrame(first, runs, i) ==
    IF i < Head(runs) THEN first
    ELSE SpeechFrame(~first, Tail(runs), i - Head(runs))

\* the look-ahead: some frame j in range(i, min(i + int(min_gap / 0.01), n))
\* is speech
NextSpeechNever(first, runs, i) == FALSE

NextSpeechWithin(first, runs, i) ==
    \E j \in i..(Min2(i + MinGapFrames, NumFrames(runs)) - 1) :
        SpeechFrame(first, runs, j)

\* AudioSegment(start_time, end_time, duration, ...)
AudioSegment(s, e) == [start_time |-> s, end_time |-> e, duration |-> e - s]

\* the segments after a run that began at s is closed at e
CloseRun(segs, s, e) ==
    IF e - s >= MinSegmentDuration /\ e > s THEN Append(segs, AudioSegment(s, e))
    ELSE segs

\* one iteration of the loop over zip(frame_times, speech_frames)
VadFrame ==
    /\ vpc = "vad"
    /\ vad_i < NumFrames(speech_runs)
    /\ LET time == FrameTime(vad_i)
           is_speech == SpeechFrame(speech_first, speech_runs, vad_i)
       IN  IF is_speech /\ ~in_speech
           THEN /\ speech_start' = time
                /\ in_speech' = TRUE
                /\ UNCHANGED vad_segments
           ELSE IF ~is_speech /\ in_speech
                   /\ ~NextSpeechWithin(speech_first, speech_runs, vad_i)
           THEN /\ vad_segments' = CloseRun(vad_segments, speech_start, time)
                /\ in_speech' = FALSE
                /\ UNCHANGED speech_start
           ELSE UNCHANGED << speech_start, in_speech, vad_segments >>
    /\ vad_i' = vad_i + 1
    /\ UNCHANGED << vpc, speech_first, speech_runs >>
    /\ UNCHANGED << samplerVars, correlatorVars, audioVars, runVars, cacheVars, redisVars >>

\* the end of the loop: a run that is open is closed at the end of the audio,
\* and step 3 of analyze_video_audio takes the segments
VadReturn ==
    /\ vpc = "vad"
    /\ vad_i = NumFrames(speech_runs)
    /\ LET segments == IF in_speech
                       THEN CloseRun(vad_segments, speech_start,
                                     AudioDuration(NumFrames(speech_runs)))
                       ELSE vad_segments
       IN  /\ vad_segments' = segments
           /\ audio_segments' = segments
           /\ vpc' = IF segments = << >> THEN "fallback" ELSE "transcribe"
    /\ UNCHANGED << speech_first, speech_runs, vad_i, in_speech, speech_start >>
    /\ UNCHANGED << apc, model_size, whisper_model, confidence_threshold,
                    stt_results, transcription_segments, earlier_call, later_call >>
    /\ UNCHANGED << samplerVars, correlatorVars, runVars, cacheVars, redisVars >>

\* _create_fixed_segments: chunk k passes when its rms_energy is above the
\* 15th percentile of the audio and its mean spectral centroid above 200 Hz
CreateFixedSegments(duration, passes) ==
    LET RECURSIVE Loop(_, _, _)
        Loop(current_time, k, segs) ==
            IF current_time < duration
            THEN LET end_time == Min2(current_time + FixedSegmentDuration, duration)
                 IN  Loop(current_time + FixedSegmentDuration, k + 1,
                          IF end_time - current_time > MinFixedDuration /\ passes[k]
                          THEN Append(segs, AudioSegment(current_time, end_time))
                          ELSE segs)
            ELSE segs
    IN  Loop(0, 1, << >>)

\* int(duration / segment_duration) + 1 chunks at most
NumChunks(duration) == duration \div FixedSegmentDuration + 1

\* step 4 of analyze_video_audio, and the hand-over to transcribe_audio_segments
FixedFallback ==
    /\ vpc = "fallback"
    /\ LET duration == AudioDuration(NumFrames(speech_runs))
       IN  \E passes \in [1..NumChunks(duration) -> BOOLEAN] :
               audio_segments' = CreateFixedSegments(duration, passes)
    /\ vpc' = "transcribe"
    /\ UNCHANGED << speech_first, speech_runs, vad_i, in_speech, speech_start,
                    vad_segments >>
    /\ UNCHANGED << apc, model_size, whisper_model, confidence_threshold,
                    stt_results, transcription_segments, earlier_call, later_call >>
    /\ UNCHANGED << samplerVars, correlatorVars, runVars, cacheVars, redisVars >>

\* the run lengths of speech_frames, in frames
RunLengths == { 1, 28, 29, 50 }
\* recordings without a frame of speech, of 30.005 s and of 30.615 s
SilentLengths == { 2999, 3060 }

InitSegmenter ==
    /\ InitSamplerIdle
    /\ IdleCorrelator
    /\ IdleAudio
    /\ IdleCache
    /\ IdleRedis
    /\ vpc = "vad"
    /\ \/ /\ speech_first \in BOOLEAN
          /\ speech_runs \in UNION { [1..n -> RunLengths] : n \in 1..MaxRuns }
       \/ /\ speech_first = FALSE
          /\ speech_runs \in { << n >> : n \in SilentLengths }
    /\ vad_i = 0
    /\ in_speech = FALSE
    /\ speech_start = 0
    /\ vad_segments = << >>

NextSegmenter == VadFrame \/ VadReturn \/ FixedFallback

SpecSegmenter == InitSegmenter /\ [][NextSegmenter]_vars

(***************************************************************************)
(* Claims about the audio segmenter (specification SpecSegmenter).         *)
(***************************************************************************)
\* the frames of the recording
VadFrames == 0..(NumFrames(speech_runs) - 1)

\* frames a and b are speech, the frames between them are a non-speech gap
\* shorter than the look-ahead
ShortGap(a, b) ==
    /\ a + 1 < b
    /\ b - a - 1 < MinGapFrames
    /\ SpeechFrame(speech_first, speech_runs, a)
    /\ SpeechFrame(speech_first, speech_runs, b)
    /\ \A j \in (a + 1)..(b - 1) : ~SpeechFrame(speech_first, speech_runs, j)

\* C25: the audio segmenter returns segments in ascending start order that do
\* not overlap, each with end_time > start_time and a duration of at least the
\* minimum segment duration; speech runs separated by a non-speech gap shorter
\* than the look-ahead of about 0.3 s are emitted as one segment, no segment
\* beginning or ending between them; and a run still open at the end of the
\* audio is closed at the audio's end.
C25_SegmentsOrderedMergedClosed ==
    /\ \A i \in DOMAIN vad_segments :
           /\ vad_segments[i].end_time > vad_segments[i].start_time
           /\ vad_segments[i].duration
                  = vad_segments[i].end_time - vad_segments[i].start_time
           /\ vad_segments[i].duration >= MinSegmentDuration
    /\ \A i, j \in DOMAIN vad_segments :
           i < j => /\ vad_segments[i].start_time < vad_segments[j].start_time
                    /\ vad_segments[i].end_time <= vad_segments[j].start_time
    /\ vpc \in { "fallback", "transcribe" } =>
           /\ \A a \in VadFrames :
                  \A b \in (a + 1)..Min2(a + MinGapFrames, NumFrames(speech_runs) - 1) :
                  ShortGap(a, b) =>
                      \A i \in DOMAIN vad_segments :
                          /\ ~ ( /\ FrameTime(a) < vad_segments[i].end_time
                                 /\ vad_segments[i].end_time <= FrameTime(b) )
                          /\ ~ ( /\ FrameTime(a) < vad_segments[i].start_time
                                 /\ vad_segments[i].start_time <= FrameTime(b) )
           /\ ( /\ SpeechFrame(speech_first, speech_runs, NumFrames(speech_runs) - 1)
                /\ AudioDuration(NumFrames(speech_runs)) - speech_start
                       >= MinSegmentDuration ) =>
                  /\ vad_segments # << >>
                  /\ Last(vad_segments).start_time = speech_start
                  /\ Last(vad_segments).end_time
                         = AudioDuration(NumFrames(speech_runs))

\* two segments were returned, the first one spanning a short gap, the second
\* one closed at the end of the audio
C25_Witness ==
    /\ vpc = "transcribe"
    /\ Len(vad_segments) = 2
    /\ \E a \in VadFrames :
       \E b \in (a + 1)..Min2(a + MinGapFrames, NumFrames(speech_runs) - 1) :
           /\ ShortGap(a, b)
           /\ vad_segments[1].start_time <= FrameTime(a)
           /\ FrameTime(b) < vad_segments[1].end_time
    /\ vad_segments[2].end_time = AudioDuration(NumFrames(speech_runs))

\* C26: when voice activity detection yields no segment, the pipeline falls
\* back to fixed 30 s chunks, and the segment list handed to transcription is
\* not empty.
C26_TranscriptionInputNonEmpty ==
    vpc = "transcribe" => audio_segments # << >>

\* the first half of C26: with no segment from the voice activity detection,
\* what is handed to transcription are the fixed chunks of at most 30 s, in
\* order, that start at multiples of 30 s
C26_FallbackIsFixedChunks ==
    (vpc = "transcribe" /\ vad_segments = << >>) =>
        \A i \in DOMAIN audio_segments :
            /\ audio_segments[i].start_time % FixedSegmentDuration = 0
            /\ audio_segments[i].duration <= FixedSegmentDuration
            /\ audio_segments[i].duration > MinFixedDuration
            /\ \A j \in DOMAIN audio_segments :
                   i < j => audio_segments[i].end_time <= audio_segments[j].start_time

(***************************************************************************)
(* Claim about the deduplication merge (specification SpecCorrelator).     *)
(***************************************************************************)
\* the places in combined, after place from, where the k-th kept violation
\* can come from
Origins(k, from) ==
    { j \in DOMAIN combined :
        j > from /\ SameButConfidence(deduplicated[k], combined[j]) }

\* the place in combined of the k-th kept violation
RECURSIVE KeptIndex(_)
KeptIndex(k) ==
    LET from == IF k = 1 THEN 0 ELSE KeptIndex(k - 1)
    IN  CHOOSE j \in Origins(k, from) : \A i \in Origins(k, from) : j <= i

C29_FlaggedIffReasonRecorded ==
    \A i \in DOMAIN transcription_segments :
        transcription_segments[i].is_hallucination
            <=> transcription_segments[i].hallucination_indicators # << >>

\* a finding flagged for its language alone, and a finding that is not flagged
C29_Witness ==
    /\ \E i \in DOMAIN transcription_segments :
           /\ transcription_segments[i].is_hallucination
           /\ Len(transcription_segments[i].hallucination_indicators) = 1
           /\ NonEnglish(transcription_segments[i].language)
    /\ \E i \in DOMAIN transcription_segments :
           ~transcription_segments[i].is_hallucination

(***************************************************************************)
(* VideoAnalysisService and analyze_frame_with_cache.  The prompt is the   *)
(* default one in every call of analyze_video_optimized, so a cache key is *)
(* the hash of the image; an image is held by its name.  confidence,       *)
(* severity and violations of a result are functions of its description    *)
(* and are held with it.                                                   *)
(***************************************************************************)
MaxCacheFrames == 3      \* most frames handed to analyze_video_optimized

Images == { "a", "b" }
\* client.chat.completions.create: it raises, or it returns a text
Answers == { "raise", "calm scene", "officer strikes" }

\* analyze_frame
AnalyzeFrame(answer) ==
    IF answer = "raise"
    THEN [ description |-> "Analysis failed", failed |-> TRUE ]
    ELSE [ description |-> answer, failed |-> FALSE ]

\* result.update({'frame_number': ..., 'timestamp': ..., 'cached': ...})
WithFrame(result, frame_number, cached) ==
    [ description |-> result.description, failed |-> result.failed,
      frame_number |-> frame_number, timestamp |-> 5 * frame_number,
      cached |-> cached ]

\* cache_key in self.analysis_cache
InCache(cache, key) == \E item \in cache.items : item.key = key

\* self.analysis_cache[cache_key]
CacheGet(cache, key) == (CHOOSE item \in cache.items : item.key = key).result

\* self.analysis_cache[cache_key] = cache_result
CachePut(cache, key, result) ==
    [ set |-> TRUE,
      items |-> { item \in cache.items : item.key # key }
                    \cup { [ key |-> key, result |-> result ] } ]

\* one iteration of the loop of analyze_video_optimized: analyze_frame_with_cache
\* on the next frame.  Reading self.analysis_cache raises AttributeError while
\* the attribute is not set, and analyze_video_optimized raises it again.
AnalyzeFrameWithCache ==
    /\ cache_raised = "None"
    /\ Len(cache_results) < Len(cache_frames)
    /\ LET frame_number == Len(cache_results) + 1
           cache_key == cache_frames[frame_number]
           result == AnalyzeFrame(cache_provider[cache_key])
       IN  IF use_cache /\ ~analysis_cache.set
           THEN /\ cache_raised' = "AttributeError"
                /\ UNCHANGED << analysis_cache, cache_results >>
           ELSE IF use_cache /\ InCache(analysis_cache, cache_key)
           THEN /\ cache_results' =
                       Append(cache_results,
                              WithFrame(CacheGet(analysis_cache, cache_key),
                                        frame_number, TRUE))
                /\ UNCHANGED << analysis_cache, cache_raised >>
           ELSE /\ cache_results' =
                       Append(cache_results, WithFrame(result, frame_number, FALSE))
                /\ analysis_cache' = IF use_cache
                                     THEN CachePut(analysis_cache, cache_key, result)
                                     ELSE analysis_cache
                /\ UNCHANGED cache_raised
    /\ UNCHANGED << use_cache, cache_provider, cache_frames >>
    /\ UNCHANGED << samplerVars, correlatorVars, audioVars, runVars, segmenterVars,
                    redisVars >>

\* VideoAnalysisService.__init__(use_cache): self.analysis_cache is not assigned
InitCache ==
    /\ InitSamplerIdle
    /\ IdleCorrelator
    /\ IdleAudio
    /\ IdleSegmenter
    /\ IdleRedis
    /\ use_cache \in BOOLEAN
    /\ analysis_cache = NoAttribute
    /\ cache_provider \in [Images -> Answers]
    /\ cache_frames \in UNION { [1..n -> Images] : n \in 1..MaxCacheFrames }
    /\ cache_results = << >>
    /\ cache_raised = "None"

NextCache == AnalyzeFrameWithCache

SpecCache == InitCache /\ [][NextCache]_vars

(***************************************************************************)
(* Claim about the frame-analysis cache (specification SpecCache).         *)
(***************************************************************************)
\* C28: analyze_frame_with_cache returns the same findings with use_cache true
\* as with use_cache false, each frame with its own frame_number and
\* timestamp, and neither mode raises because of the cache: no call raises,
\* and every result is, but for its 'cached' flag, what the analysis of that
\* frame without a cache returns.
C28_CacheSafeToEnable ==
    /\ cache_raised = "None"
    /\ \A i \in DOMAIN cache_results :
           LET uncached == WithFrame(AnalyzeFrame(cache_provider[cache_frames[i]]),
                                     i, FALSE)
           IN  [cache_results[i] EXCEPT !.cached = FALSE] = uncached

\* C28 for a service constructed with use_cache false
C28_UncachedNeverRaises ==
    ~use_cache =>
        /\ cache_raised = "None"
        /\ \A i \in DOMAIN cache_results :
               cache_results[i]
                   = WithFrame(AnalyzeFrame(cache_provider[cache_frames[i]]), i, FALSE)

(***************************************************************************)
(* RedisService.  A connection is held by whether it exists; the two       *)
(* servers are named "primary" (REDIS_URL) and "fallback"                  *)
(* (LOCAL_REDIS_URL).  A call on a server raises while the server is down, *)
(* and a first call may also time out on a server that is up.              *)
(***************************************************************************)
DailyLimit == 2          \* REDIS_DAILY_LIMIT, kept small

Servers == { "primary", "fallback" }
Keys == { "k" }
Values == { "v1", "v2" }

EmptyStore == [ key \in Keys |-> "None" ]

\* _is_over_limit, on a count already reset if the day has changed
IsOverLimit(count) == count >= DailyLimit

\* the counter after _is_over_limit has looked at the date; the limit is only
\* consulted while the primary is in use
CountAfterDateCheck(new_day) ==
    IF ~using_fallback /\ new_day THEN 0 ELSE command_count

\* self.using_fallback after _get_redis_client
FallbackAfterGetClient(new_day) ==
    using_fallback \/ IsOverLimit(CountAfterDateCheck(new_day))

\* _get_redis_client: the connection it returns, "None" when there is none
GetRedisClient(new_day) ==
    IF FallbackAfterGetClient(new_day)
    THEN IF fallback_redis THEN "fallback" ELSE "None"
    ELSE IF primary_redis THEN "primary" ELSE "None"

\* client.get(key) and client.set(key, value) on a server that answers
ServerAnswer(command, stores, server, key, value) ==
    IF command = "get" THEN stores[server][key] ELSE "True"

ServerStore(command, stores, server, key, value) ==
    IF command = "get"
    THEN stores
    ELSE [stores EXCEPT ![server] = [@ EXCEPT ![key] = value]]

\* one call of func(*args, **kwargs); func is the bound method of `server`
Attempt(command, server, raises, stores, key, value) ==
    [ command |-> command, server |-> server, raised |-> raises,
      answer |-> IF raises THEN "None"
                 ELSE ServerAnswer(command, stores, server, key, value) ]

\* the server on which the except branch of _execute_command calls func again:
\* func is still the bound method of the client that get or set took before
\* the failure
RetryServer(client) == client

\* get and set: what the caller receives for the value _execute_command returns
Returned(command, answer) ==
    IF command = "get" THEN answer
    ELSE IF answer # "None" THEN "True" ELSE "False"

\* get(key) and set(key, value), with _execute_command(client.get, key) or
\* _execute_command(client.set, key, value) inside
RedisCommand(command, key, value, new_day, timeout) ==
    LET count == CountAfterDateCheck(new_day)
        fallback == FallbackAfterGetClient(new_day)
        client == GetRedisClient(new_day)
        first_raises == client \in redis_down \/ timeout
        retry == RetryServer(client)
        retry_raises == retry \in redis_down
        first == Attempt(command, client, first_raises, redis_stores, key, value)
        second == Attempt(command, retry, retry_raises, redis_stores, key, value)
    IN  /\ command_count' = IF client # "None" /\ ~first_raises /\ ~fallback
                            THEN count + 1 ELSE count
        /\ IF client = "None"
           THEN /\ using_fallback' = fallback
                /\ redis_attempts' = << >>
                /\ redis_result' = Returned(command, "None")
                /\ UNCHANGED redis_stores
           ELSE IF ~first_raises
           THEN /\ using_fallback' = fallback
                /\ redis_attempts' = << first >>
                /\ redis_result' = Returned(command, first.answer)
                /\ redis_stores' = ServerStore(command, redis_stores, client, key, value)
           ELSE IF ~fallback /\ fallback_redis
           THEN /\ using_fallback' = TRUE
                /\ redis_attempts' = << first, second >>
                /\ redis_result' = Returned(command, second.answer)
                /\ redis_stores' = IF retry_raises THEN redis_stores
                                   ELSE ServerStore(command, redis_stores, retry,
                                                    key, value)
           ELSE /\ using_fallback' = fallback
                /\ redis_attempts' = << first >>
                /\ redis_result' = Returned(command, "None")
                /\ UNCHANGED redis_stores
        /\ UNCHANGED << primary_redis, fallback_redis, redis_down >>
        /\ UNCHANGED << samplerVars, correlatorVars, audioVars, runVars,
                        segmenterVars, cacheVars >>

RedisGet ==
    \E key \in Keys, new_day \in BOOLEAN, timeout \in BOOLEAN :
        /\ RedisCommand("get", key, "None", new_day, timeout)

RedisSet ==
    \E key \in Keys, value \in Values, new_day \in BOOLEAN, timeout \in BOOLEAN :
        /\ RedisCommand("set", key, value, new_day, timeout)

\* a server stops answering
ServerDown ==
    \E server \in Servers \ redis_down :
        /\ redis_down' = redis_down \cup { server }
        /\ UNCHANGED << primary_redis, fallback_redis, using_fallback, command_count,
                        redis_stores, redis_attempts, redis_result >>
        /\ UNCHANGED << samplerVars, correlatorVars, audioVars, runVars,
                        segmenterVars, cacheVars >>

\* a server answers again
ServerUp ==
    \E server \in redis_down :
        /\ redis_down' = redis_down \ { server }
        /\ UNCHANGED << primary_redis, fallback_redis, using_fallback, command_count,
                        redis_stores, redis_attempts, redis_result >>
        /\ UNCHANGED << samplerVars, correlatorVars, audioVars, runVars,
                        segmenterVars, cacheVars >>

\* RedisService.__init__ with the redis library installed: _setup_connections
\* keeps a connection only if its ping is answered
InitRedis ==
    /\ InitSamplerIdle
    /\ IdleCorrelator
    /\ IdleAudio
    /\ IdleSegmenter
    /\ IdleCache
    /\ redis_down \in SUBSET Servers
    /\ \E redis_url \in BOOLEAN :
           primary_redis = (redis_url /\ "primary" \notin redis_down)
    /\ fallback_redis = ("fallback" \notin redis_down)
    /\ using_fallback = (~primary_redis /\ fallback_redis)
    /\ command_count = 0
    /\ redis_stores = [ server \in Servers |-> EmptyStore ]
    /\ redis_attempts = << >>
    /\ redis_result = "None"

NextRedis == RedisGet \/ RedisSet \/ ServerDown \/ ServerUp

SpecRedis == InitRedis /\ [][NextRedis]_vars

(***************************************************************************)
(* Claim about the Redis fallback (specification SpecRedis).               *)
(***************************************************************************)
\* the latest command was sent to the primary first, that call raised, and a
\* fallback connection exists
PrimaryRaisedWithFallback ==
    /\ redis_attempts # << >>
    /\ redis_attempts[1].server = "primary"
    /\ redis_attempts[1].raised
    /\ fallback_redis

\* C30: when a command issued against the primary connection raises and a
\* fallback connection exists, the service switches to the fallback and
\* executes the same command again on the fallback connection, not on the
\* primary, and returns what the fallback answered.
C30_RetryRunsOnFallback ==
    PrimaryRaisedWithFallback =>
        /\ using_fallback
        /\ Len(redis_attempts) = 2
        /\ redis_attempts[2].command = redis_attempts[1].command
        /\ redis_attempts[2].server = "fallback"
        /\ redis_result = Returned(redis_attempts[2].command,
                                   redis_attempts[2].answer)

\* what C30 has right: the service switches to the fallback and the command is
\* executed exactly once more
C30_SwitchesAndRetriesOnce ==
    PrimaryRaisedWithFallback =>
        /\ using_fallback
        /\ Len(redis_attempts) = 2
        /\ redis_attempts[2].command = redis_attempts[1].command
        /\ redis_result = Returned(redis_attempts[2].command,
                                   redis_attempts[2].answer)

====
